---- MODULE Spec2Model ----
(***************************************************************************)
(* The approval-gated action broker of hit-feature-pack-ai-core: the       *)
(* POST /api/ai/execute route (http.request, http.bulk) and the policy     *)
(* switches it reads from the process environment.                         *)
(*                                                                         *)
(* JavaScript values are modelled as follows.  An object is a record; a    *)
(* property that is undefined is a field that is absent from the record.   *)
(* A path is the sequence of its characters, so that startsWith is a real  *)
(* prefix test.  Opaque JSON payloads (query, body) are strings, "null"    *)
(* being the JSON null.                                                    *)
(***************************************************************************)
EXTENDS Integers, Sequences, FiniteSets, TLC

\* Enumerated batches have 1..MaxShortLen entries (longer ones are uniform).
MaxShortLen == 2

\* reqs.length > 50 is refused.
MaxBulk == 50

--------------------------------------------------------------------------
\* Strings.

ApiPrefix == <<"/", "a", "p", "i", "/">>
AiPrefix == <<"/", "a", "p", "i", "/", "a", "i", "/">>

\* String.prototype.startsWith
StartsWith(s, p) == Len(s) >= Len(p) /\ SubSeq(s, 1, Len(p)) = p

\* String.prototype.toUpperCase, on the method spellings of the model.
ToUpperCase(s) ==
    CASE s = "get" -> "GET"
      [] s = "delete" -> "DELETE"
      [] s = "Post" -> "POST"
      [] OTHER -> s

Has(o, k) == k \in DOMAIN o

\* v ?? null
Nullish(o, k) == IF Has(o, k) THEN o[k] ELSE "null"

Verbs == <<"GET", "POST", "PUT", "PATCH", "DELETE">>

Includes(seq, x) == \E j \in 1..Len(seq) : seq[j] = x

\* A property that may be left out: no value, or one of S.
Opt(S) == {{}} \cup {{x} : x \in S}

\* The object with the properties of opts that have a value.
Obj(opts) ==
    [k \in {f \in DOMAIN opts : opts[f] # {}} |-> CHOOSE v \in opts[k] : TRUE]

--------------------------------------------------------------------------
\* The policy switches (ai-policy).

\* autoApproveWritesEnabled with the switch read once, when the module is
\* loaded under the defaults of production, and kept.
autoApproveWritesEnabled_AtLoad(e) ==
    LET kept == [NODE_ENV |-> "production", HIT_AI_AUTO_APPROVE_WRITES |-> "0"]
    IN  kept.NODE_ENV = "development" \/ kept.HIT_AI_AUTO_APPROVE_WRITES = "1"

autoApproveWritesEnabled(e) ==
    e.NODE_ENV = "development" \/ e.HIT_AI_AUTO_APPROVE_WRITES = "1"

autoApproveDeleteEnabled(e) == e.HIT_AI_AUTO_APPROVE_DELETE = "1"

--------------------------------------------------------------------------
\* The caller's identity (auth: getTokenFromRequest, extractUserFromRequest).
\* A header of the request is a field of request.headers, absent when the
\* request has no such header.  The value of an authorization header is its
\* scheme and what follows it; the value of a cookie header is the sequence
\* of its name=value pairs.  A header that is sent with an empty value is
\* EmptyAuthorization, or the empty sequence of cookies.

EmptyAuthorization == [scheme |-> "", credentials |-> ""]

\* Date.now() / 1000, against which the exp of a token is read.
NowSeconds == 1000

\* token.split('.')
JwtParts(token) ==
    CASE token = "h.alice.s" -> <<"h", "alice", "s">>
      [] token = "h.old.s" -> <<"h", "old", "s">>
      [] token = "h.anon.s" -> <<"h", "anon", "s">>
      [] token = "h.junk.s" -> <<"h", "junk", "s">>
      [] OTHER -> <<token>>

\* JSON.parse(base64UrlDecode(part)): the payload, or "throws".
JwtPayload(part) ==
    CASE part = "alice" -> [sub |-> "u1", email |-> "alice@hit", exp |-> 2000]
      [] part = "old" -> [sub |-> "u1", email |-> "alice@hit", exp |-> 500]
      [] part = "anon" -> [role |-> "admin"]
      [] OTHER -> [throws |-> TRUE]

\* request.cookies.get('hit_token')?.value, and the parse of the cookie
\* header that follows it: the first hit_token cookie that has a value.
RECURSIVE CookieToken(_, _)
CookieToken(cookies, j) ==
    IF j > Len(cookies) THEN ""
    ELSE IF cookies[j].name = "hit_token" /\ cookies[j].value # "" THEN cookies[j].value
    ELSE CookieToken(cookies, j + 1)

\* The token of the request, "" when it has none.
getTokenFromRequest(req) ==
    IF Has(req.headers, "authorization") /\ req.headers.authorization.scheme = "Bearer"
        THEN req.headers.authorization.credentials
    ELSE IF Has(req.headers, "cookie")
        THEN CookieToken(req.headers.cookie, 1)
    ELSE ""

\* extractUserFromRequest without the reading of exp: an expired token
\* still names its user.
extractUserFromRequest_NoExpiry(req) ==
    LET token == getTokenFromRequest(req)
        parts == JwtParts(token)
        payload == JwtPayload(parts[2])
        userId == IF Has(payload, "sub") THEN payload.sub
                  ELSE IF Has(payload, "email") THEN payload.email ELSE ""
        email == IF Has(payload, "email") THEN payload.email
                 ELSE IF Has(payload, "sub") THEN payload.sub ELSE ""
    IN  IF token = "" THEN << >>
        ELSE IF Len(parts) # 3 THEN << >>
        ELSE IF Has(payload, "throws") THEN << >>
        ELSE IF userId = "" \/ email = "" THEN << >>
        ELSE [userId |-> userId, email |-> email]

\* The user of the request, or no user (the empty record).
extractUserFromRequest(req) ==
    LET token == getTokenFromRequest(req)
        parts == JwtParts(token)
        payload == JwtPayload(parts[2])
        userId == IF Has(payload, "sub") THEN payload.sub
                  ELSE IF Has(payload, "email") THEN payload.email ELSE ""
        email == IF Has(payload, "email") THEN payload.email
                 ELSE IF Has(payload, "sub") THEN payload.sub ELSE ""
    IN  IF token = "" THEN << >>
        ELSE IF Len(parts) # 3 THEN << >>
        ELSE IF Has(payload, "throws") THEN << >>
        ELSE IF Has(payload, "exp") /\ payload.exp < NowSeconds THEN << >>
        ELSE IF userId = "" \/ email = "" THEN << >>
        ELSE [userId |-> userId, email |-> email]

\* if (!user)
HasUser(req) == Has(extractUserFromRequest(req), "userId")

--------------------------------------------------------------------------
\* httpRequest, up to its await of fetch.

\* const method = ...
MethodOf(input) ==
    LET methodRaw == IF Has(input, "method") THEN ToUpperCase(input.method) ELSE "GET"
    IN  IF Includes(Verbs, methodRaw) THEN methodRaw ELSE "GET"

\* const pathRaw = typeof input.path === 'string' ? input.path : ''
PathRawOf(input) == IF Has(input, "path") THEN input.path ELSE << >>

\* Boolean(input.approved)
ApprovedOf(input) == Has(input, "approved") /\ input.approved

\* SingleHold with every verb, the read verb too, taken to require approval.
SingleHold_NoReadExemption(input, e) ==
    LET method == MethodOf(input)
        autoApprove == autoApproveWritesEnabled(e)
        forceApprove == method = "DELETE" /\ ~autoApproveDeleteEnabled(e)
    IN  ~ApprovedOf(input) /\ (forceApprove \/ ~autoApprove)

\* SingleHold without the guard on DELETE.
SingleHold_NoDeleteGuard(input, e) ==
    LET method == MethodOf(input)
        requiresApproval == method # "GET"
        autoApprove == autoApproveWritesEnabled(e)
    IN  requiresApproval /\ ~ApprovedOf(input) /\ ~autoApprove

\* SingleHold with && for the || of its last clause.
SingleHold_BothNeeded(input, e) ==
    LET method == MethodOf(input)
        requiresApproval == method # "GET"
        autoApprove == autoApproveWritesEnabled(e)
        forceApprove == method = "DELETE" /\ ~autoApproveDeleteEnabled(e)
    IN  requiresApproval /\ ~ApprovedOf(input) /\ (forceApprove /\ ~autoApprove)

\* requiresApproval && !approved && (forceApprove || !autoApprove)
SingleHold(input, e) ==
    LET method == MethodOf(input)
        requiresApproval == method # "GET"
        autoApprove == autoApproveWritesEnabled(e)
        forceApprove == method = "DELETE" /\ ~autoApproveDeleteEnabled(e)
    IN  requiresApproval /\ ~ApprovedOf(input) /\ (forceApprove \/ ~autoApprove)

SingleDraft(input) ==
    [status |-> 200,
     body |-> [requiresApproval |-> TRUE,
               draft |-> [toolName |-> "http.request",
                          input |-> [method |-> MethodOf(input),
                                     path |-> PathRawOf(input),
                                     query |-> Nullish(input, "query"),
                                     body |-> Nullish(input, "body"),
                                     approved |-> FALSE]]]]

\* The dot segments new URL(pathRaw, origin) removes from an absolute path.
RECURSIVE SplitSlash(_, _, _)
SplitSlash(s, j, buf) ==
    IF j > Len(s) THEN <<buf>>
    ELSE IF s[j] = "/" THEN <<buf>> \o SplitSlash(s, j + 1, << >>)
    ELSE SplitSlash(s, j + 1, Append(buf, s[j]))

RECURSIVE PathState(_, _, _)
PathState(segs, j, out) ==
    IF j > Len(segs) THEN out
    ELSE LET seg == segs[j]
             last == j = Len(segs)
             popped == IF Len(out) > 0 THEN SubSeq(out, 1, Len(out) - 1) ELSE out
         IN  IF seg = <<".", ".">>
                 THEN PathState(segs, j + 1, IF last THEN Append(popped, << >>) ELSE popped)
             ELSE IF seg = <<".">>
                 THEN PathState(segs, j + 1, IF last THEN Append(out, << >>) ELSE out)
             ELSE PathState(segs, j + 1, Append(out, seg))

RECURSIVE JoinSlash(_, _)
JoinSlash(segs, j) ==
    IF j > Len(segs) THEN << >> ELSE <<"/">> \o segs[j] \o JoinSlash(segs, j + 1)

\* new URL(pathRaw, origin).pathname, for a pathRaw that starts with "/".
UrlPathname(pathRaw) ==
    LET out == PathState(Tail(SplitSlash(pathRaw, 1, << >>)), 1, << >>)
    IN  IF Len(out) = 0 THEN <<"/">> ELSE JoinSlash(out, 1)

\* ForwardedHeaders with the authorization header made up from the
\* hit_token cookie when the request has no authorization header.
ForwardedHeaders_FromCookie(req) ==
    LET auth == IF Has(req.headers, "authorization") /\ req.headers.authorization # EmptyAuthorization
                    THEN {req.headers.authorization}
                ELSE IF Has(req.headers, "cookie") /\ CookieToken(req.headers.cookie, 1) # ""
                    THEN {[scheme |-> "Bearer", credentials |-> CookieToken(req.headers.cookie, 1)]}
                ELSE {}
        cookie == IF Has(req.headers, "cookie") /\ req.headers.cookie # << >>
                      THEN {req.headers.cookie} ELSE {}
    IN  Obj([authorization |-> auth, cookie |-> cookie, contentType |-> {"application/json"}])

\* const headers = {}; if (auth) headers['authorization'] = auth;
\* if (cookie) headers['cookie'] = cookie; headers['content-type'] = ...
ForwardedHeaders(req) ==
    LET auth == IF Has(req.headers, "authorization") /\ req.headers.authorization # EmptyAuthorization
                    THEN {req.headers.authorization} ELSE {}
        cookie == IF Has(req.headers, "cookie") /\ req.headers.cookie # << >>
                      THEN {req.headers.cookie} ELSE {}
    IN  Obj([authorization |-> auth, cookie |-> cookie, contentType |-> {"application/json"}])

\* The request httpRequest hands to fetch: url, init.method, init.headers,
\* init.body.
FetchOf(req, input) ==
    LET method == MethodOf(input)
        query == IF Has(input, "query") /\ input.query # "null" THEN input.query ELSE "null"
        base == [method |-> method,
                 url |-> [pathname |-> UrlPathname(PathRawOf(input)), search |-> query],
                 headers |-> ForwardedHeaders(req)]
    IN  IF method # "GET"
            THEN [method |-> base.method, url |-> base.url, headers |-> base.headers,
                  body |-> IF Nullish(input, "body") = "null" THEN "{}" ELSE input.body]
            ELSE base

\* HttpRequestBegin with the approval gate ahead of the checks of the path.
HttpRequestBegin_GateFirst(req, input, e) ==
    IF SingleHold(input, e)
        THEN [ret |-> SingleDraft(input)]
    ELSE IF ~StartsWith(PathRawOf(input), ApiPrefix)
        THEN [ret |-> [status |-> 400, body |-> [error |-> "path must start with '/api/'"]]]
    ELSE IF StartsWith(PathRawOf(input), AiPrefix)
        THEN [ret |-> [status |-> 400, body |-> [error |-> "Refusing to call /api/ai/* endpoints"]]]
    ELSE [send |-> FetchOf(req, input)]

\* HttpRequestBegin without the check of the control-plane prefix.
HttpRequestBegin_NoAiCheck(req, input, e) ==
    IF ~StartsWith(PathRawOf(input), ApiPrefix)
        THEN [ret |-> [status |-> 400, body |-> [error |-> "path must start with '/api/'"]]]
    ELSE IF SingleHold(input, e)
        THEN [ret |-> SingleDraft(input)]
    ELSE [send |-> FetchOf(req, input)]

\* What httpRequest does before it awaits: a result it returns at once
\* (field "ret"), or the request it sends (field "send").
HttpRequestBegin(req, input, e) ==
    IF ~StartsWith(PathRawOf(input), ApiPrefix)
        THEN [ret |-> [status |-> 400, body |-> [error |-> "path must start with '/api/'"]]]
    ELSE IF StartsWith(PathRawOf(input), AiPrefix)
        THEN [ret |-> [status |-> 400, body |-> [error |-> "Refusing to call /api/ai/* endpoints"]]]
    ELSE IF SingleHold(input, e)
        THEN [ret |-> SingleDraft(input)]
    ELSE [send |-> FetchOf(req, input)]

\* What httpRequest returns once the host application has answered.
HttpRequestEnd(sent, resp) ==
    [status |-> 200,
     body |-> [status |-> resp.status, url |-> sent.url, method |-> sent.method,
               response |-> resp.parsed]]

--------------------------------------------------------------------------
\* httpBulk, around its loop.

Nothing == << >>

\* String(r?.method || '').toUpperCase()
GateVerb(r) == IF Has(r, "method") THEN ToUpperCase(r.method) ELSE ""

AnyWrite(reqs) == \E j \in 1..Len(reqs) : GateVerb(reqs[j]) # "GET"

AnyDelete(reqs) == \E j \in 1..Len(reqs) : GateVerb(reqs[j]) = "DELETE"

\* BulkHold without the guard on DELETE.
BulkHold_NoDeleteGuard(input, e) ==
    LET reqs == input.requests
        autoApprove == autoApproveWritesEnabled(e)
    IN  AnyWrite(reqs) /\ ~ApprovedOf(input) /\ ~autoApprove

\* anyWrite && !approved && (forceApprove || !autoApprove)
BulkHold(input, e) ==
    LET reqs == input.requests
        autoApprove == autoApproveWritesEnabled(e)
        forceApprove == AnyDelete(reqs) /\ ~autoApproveDeleteEnabled(e)
    IN  AnyWrite(reqs) /\ ~ApprovedOf(input) /\ (forceApprove \/ ~autoApprove)

\* BulkDraft with the draft marked as approved.
BulkDraft_PreApproved(input) ==
    [status |-> 200,
     body |-> [requiresApproval |-> TRUE,
               draft |-> [toolName |-> "http.bulk",
                          input |-> [requests |-> input.requests, approved |-> TRUE]]]]

BulkDraft(input) ==
    [status |-> 200,
     body |-> [requiresApproval |-> TRUE,
               draft |-> [toolName |-> "http.bulk",
                          input |-> [requests |-> input.requests, approved |-> FALSE]]]]

\* HttpBulkBegin with >= for the > of the size check.
HttpBulkBegin_OffByOne(input, e) ==
    IF ~Has(input, "requests") \/ Len(input.requests) = 0
        THEN [ret |-> [status |-> 400, body |-> [error |-> "requests[] is required"]]]
    ELSE IF Len(input.requests) >= MaxBulk
        THEN [ret |-> [status |-> 400, body |-> [error |-> "Too many requests (max 50)"]]]
    ELSE IF BulkHold(input, e)
        THEN [ret |-> BulkDraft(input)]
    ELSE [run |-> input.requests]

\* What httpBulk does before its loop: a result it returns at once (field
\* "ret"), or the requests it goes on to run (field "run").
HttpBulkBegin(input, e) ==
    IF ~Has(input, "requests") \/ Len(input.requests) = 0
        THEN [ret |-> [status |-> 400, body |-> [error |-> "requests[] is required"]]]
    ELSE IF Len(input.requests) > MaxBulk
        THEN [ret |-> [status |-> 400, body |-> [error |-> "Too many requests (max 50)"]]]
    ELSE IF BulkHold(input, e)
        THEN [ret |-> BulkDraft(input)]
    ELSE [run |-> input.requests]

\* EntryInput with the approval of the batch not handed on to the entry.
EntryInput_NotApproved(r) ==
    [k \in ({"query", "body", "approved"} \cup (DOMAIN r \cap {"method", "path"})) |->
        CASE k = "method" -> r.method
          [] k = "path" -> r.path
          [] k = "query" -> Nullish(r, "query")
          [] k = "body" -> Nullish(r, "body")
          [] k = "approved" -> FALSE]

\* The input the loop hands to httpRequest for the entry r.
EntryInput(r) ==
    [k \in ({"query", "body", "approved"} \cup (DOMAIN r \cap {"method", "path"})) |->
        CASE k = "method" -> r.method
          [] k = "path" -> r.path
          [] k = "query" -> Nullish(r, "query")
          [] k = "body" -> Nullish(r, "body")
          [] k = "approved" -> TRUE]

\* typeof st === 'number' && st >= 200 && st < 300, st being res.body?.status
CountsOk(body) == Has(body, "status") /\ body.status >= 200 /\ body.status < 300

BulkResult(results, ok, failed) ==
    [status |-> 200,
     body |-> [status |-> IF failed = 0 THEN 200 ELSE 207,
               ok |-> ok, failed |-> failed, results |-> results]]

--------------------------------------------------------------------------
\* The overlay of the assistant: runApproval.  The request it sends to
\* /api/ai/execute for the draft it holds, with the token of the user.
runApproval(pendingApproval, token) ==
    [url |-> "/api/ai/execute",
     headers |-> IF token # "" THEN [authorization |-> [scheme |-> "Bearer", credentials |-> token]]
                 ELSE Nothing,
     json |-> [toolName |-> pendingApproval.toolName,
               input |-> [k \in DOMAIN pendingApproval.input \cup {"approved"} |->
                             IF k = "approved" THEN TRUE ELSE pendingApproval.input[k]]]]

--------------------------------------------------------------------------
\* The host application behind fetch: what it answers to a request.

P_ok == <<"/", "a", "p", "i", "/", "o", "k">>
P_err == <<"/", "a", "p", "i", "/", "e", "r", "r">>
P_gone == <<"/", "a", "p", "i", "/", "g", "o", "n", "e">>
P_ai == <<"/", "a", "p", "i", "/", "a", "i", "/", "x">>
P_aiBare == <<"/", "a", "p", "i", "/", "a", "i">>
P_outside == <<"/", "x", "/", "a", "p", "i", "/", "o", "k">>
P_relative == <<"a", "p", "i", "/", "o", "k">>
P_empty == << >>

HostStatus(method, pathname) ==
    IF pathname = P_ok
        THEN (CASE method = "POST" -> 201 [] method = "DELETE" -> 204 [] OTHER -> 200)
    ELSE IF pathname = P_err THEN 500
    ELSE 404

\* resp.status, and resp.text() after JSON.parse (kept as text when it fails).
HostReply(sent) ==
    LET st == HostStatus(sent.method, sent.url.pathname)
    IN  [status |-> st, parsed |-> IF st = 404 THEN "Not Found" ELSE "{json}"]

--------------------------------------------------------------------------
\* The requests the model sends to POST /api/ai/execute.

Methods == {"GET", "get", "POST", "PUT", "PATCH", "DELETE", "delete", "OPTIONS"}

Paths == {P_ok, P_err, P_gone, P_ai, P_aiBare, P_outside, P_relative, P_empty}

Payloads ==
    {[query |-> {}, body |-> {}],
     [query |-> {"null"}, body |-> {"null"}],
     [query |-> {"{limit:5}"}, body |-> {"{name:Acme}"}]}

SingleInputs ==
    {Obj([method |-> m, path |-> p, query |-> pl.query, body |-> pl.body, approved |-> a]) :
        m \in Opt(Methods), p \in Opt(Paths), pl \in Payloads, a \in Opt(BOOLEAN)}

Entries ==
    {[method |-> "GET", path |-> P_ok],
     [method |-> "POST", path |-> P_ok, body |-> "{name:Acme}"],
     [method |-> "DELETE", path |-> P_gone],
     [method |-> "delete", path |-> P_ok],
     [path |-> P_ok],
     [method |-> "OPTIONS", path |-> P_err, query |-> "{limit:5}"],
     [method |-> "GET", path |-> P_outside]}

ShortBatches == UNION {[1..n -> Entries] : n \in 1..MaxShortLen}

LongBatches ==
    {[j \in 1..n |-> e] : n \in {MaxBulk, MaxBulk + 1},
                          e \in {[method |-> "GET", path |-> P_ok],
                                 [method |-> "POST", path |-> P_ok]}}

\* Batches of three: one entry that fails between two that succeed, and a
\* read between two writes.
MixedBatches ==
    {<<[method |-> "GET", path |-> P_ok],
       [method |-> "GET", path |-> P_err],
       [method |-> "POST", path |-> P_ok, body |-> "{name:Acme}"]>>,
     <<[method |-> "DELETE", path |-> P_ok],
       [method |-> "GET", path |-> P_outside],
       [method |-> "PUT", path |-> P_ok]>>}

BulkInputs ==
    {Obj([requests |-> rs, approved |-> a]) :
        rs \in Opt(ShortBatches \cup MixedBatches \cup LongBatches \cup {<< >>}),
        a \in Opt(BOOLEAN)}

Bodies ==
    {[toolName |-> "http.request", input |-> x] : x \in SingleInputs}
        \cup {[toolName |-> "http.bulk", input |-> x] : x \in BulkInputs}
        \cup {[toolName |-> "http.request"], [toolName |-> "shell.exec", input |-> Nothing]}

BearerAlice == [scheme |-> "Bearer", credentials |-> "h.alice.s"]

\* The headers of the callers of Requests: none, or a valid bearer token.
PlainHeaders == {Nothing, [authorization |-> BearerAlice]}

\* url: the route of the request; headers: its headers; json: the body, if
\* the text of the request parses.
Requests ==
    {Obj([url |-> {"/api/ai/execute"}, headers |-> {h}, json |-> b]) :
        h \in PlainHeaders, b \in Opt(Bodies)}

EnvValues ==
    [NODE_ENV |-> {"development", "production"},
     HIT_AI_AUTO_APPROVE_WRITES |-> {"1", "0"},
     HIT_AI_AUTO_APPROVE_DELETE |-> {"1", "0"}]

Envs == {e \in [DOMAIN EnvValues -> {"development", "production", "1", "0"}] :
            \A k \in DOMAIN EnvValues : e[k] \in EnvValues[k]}

--------------------------------------------------------------------------
\* The state.

VARIABLES
    env,        \* process.env
    pc,         \* where the handler is: "idle", "loop", "fetching", "done", "thrown"
    request,    \* the request being handled
    idx,        \* httpBulk: the entry the loop is at (0 outside the loop)
    results,    \* httpBulk: results
    ok,         \* httpBulk: ok
    failed,     \* httpBulk: failed
    inflight,   \* the request fetch has sent and not yet settled
    fetchLog,   \* every request handed to fetch while handling request
    response    \* what the handler returned

VARIABLES
    caps,       \* .hit/generated/capabilities.json as parsed, or nothing
    catalog,    \* what buildMethodCatalog returned last
    cached,     \* ai-endpoints: the module's cache, or nothing (null)
    now,        \* Date.now()
    disk,       \* the route files under app/api of each project root
    scans,      \* how many times the tree of a project root has been walked
    found       \* what discoverAppApiEndpoints returned last

\* The state outside the handler of POST /api/ai/execute.
libVars == <<caps, catalog, cached, now, disk, scans, found>>

vars == <<env, pc, request, idx, results, ok, failed, inflight, fetchLog, response, libVars>>

\* The state outside the handlers as it is when none of the libraries has
\* been called and the project has no capabilities file and no route.
LibIdle ==
    /\ caps = Nothing
    /\ catalog = << >>
    /\ cached = Nothing
    /\ now = 0
    /\ disk = << >>
    /\ scans = 0
    /\ found = << >>

ToolName == request.json.toolName

\* const input = (body.input ?? {})
ToolInput == IF Has(request.json, "input") THEN request.json.input ELSE Nothing

Init ==
    /\ env \in Envs
    /\ pc = "idle"
    /\ request = Nothing
    /\ idx = 0
    /\ results = << >>
    /\ ok = 0
    /\ failed = 0
    /\ inflight = Nothing
    /\ fetchLog = << >>
    /\ response = Nothing
    /\ LibIdle

\* fetch(url.toString(), init) is called.
Send(sent, entry) ==
    /\ inflight' = sent
    /\ fetchLog' = Append(fetchLog, [entry |-> entry, sent |-> sent])
    /\ pc' = "fetching"

Return(res) ==
    /\ response' = res
    /\ pc' = "done"

\* POST: from the arrival of the request to the first await of fetch, the
\* start of the loop, or the return.
POST(req) ==
    /\ pc = "idle"
    /\ request' = req
    /\ UNCHANGED <<env, results, ok, failed, libVars>>
    /\ IF ~HasUser(req)
           THEN Return([status |-> 401, body |-> [error |-> "Unauthorized"]])
                /\ UNCHANGED <<idx, inflight, fetchLog>>
       ELSE IF ~Has(req, "json")
           THEN Return([status |-> 400, body |-> [error |-> "Invalid JSON body"]])
                /\ UNCHANGED <<idx, inflight, fetchLog>>
       ELSE LET toolName == req.json.toolName
                input == IF Has(req.json, "input") THEN req.json.input ELSE Nothing
            IN  IF toolName = "http.request"
                    THEN LET b == HttpRequestBegin(req, input, env)
                         IN  IF Has(b, "ret")
                                 THEN Return(b.ret) /\ UNCHANGED <<idx, inflight, fetchLog>>
                                 ELSE Send(b.send, 0) /\ UNCHANGED <<idx, response>>
                ELSE IF toolName = "http.bulk"
                    THEN LET b == HttpBulkBegin(input, env)
                         IN  IF Has(b, "ret")
                                 THEN Return(b.ret) /\ UNCHANGED <<idx, inflight, fetchLog>>
                                 ELSE /\ pc' = "loop"
                                      /\ idx' = 1
                                      /\ UNCHANGED <<inflight, fetchLog, response>>
                ELSE Return([status |-> 404, body |-> [error |-> "Unknown or not executable tool"]])
                     /\ UNCHANGED <<idx, inflight, fetchLog>>

\* Push with the result put at the head of results.
Push_AtHead(body) ==
    /\ results' = <<body>> \o results
    /\ IF CountsOk(body)
           THEN ok' = ok + 1 /\ failed' = failed
           ELSE failed' = failed + 1 /\ ok' = ok

\* results.push(res.body) and the count of it.
Push(body) ==
    /\ results' = Append(results, body)
    /\ IF CountsOk(body)
           THEN ok' = ok + 1 /\ failed' = failed
           ELSE failed' = failed + 1 /\ ok' = ok

\* BulkIter without the await: the request is sent and the loop goes on to
\* the next entry while the host application has not answered.
BulkIter_NoAwait ==
    /\ pc = "loop"
    /\ idx <= Len(ToolInput.requests)
    /\ LET b == HttpRequestBegin(request, EntryInput(ToolInput.requests[idx]), env)
       IN  IF Has(b, "ret")
               THEN /\ Push(b.ret.body)
                    /\ UNCHANGED <<inflight, fetchLog>>
               ELSE /\ inflight' = b.send
                    /\ fetchLog' = Append(fetchLog, [entry |-> idx, sent |-> b.send])
                    /\ UNCHANGED <<results, ok, failed>>
    /\ idx' = idx + 1
    /\ UNCHANGED <<env, pc, request, response, libVars>>

\* httpBulk: one turn of the loop, up to the await of fetch or, when
\* httpRequest returns at once, to the end of the turn.
BulkIter ==
    /\ pc = "loop"
    /\ idx <= Len(ToolInput.requests)
    /\ LET b == HttpRequestBegin(request, EntryInput(ToolInput.requests[idx]), env)
       IN  IF Has(b, "ret")
               THEN /\ Push(b.ret.body)
                    /\ idx' = idx + 1
                    /\ UNCHANGED <<pc, inflight, fetchLog>>
               ELSE /\ Send(b.send, idx)
                    /\ UNCHANGED <<idx, results, ok, failed>>
    /\ UNCHANGED <<env, request, response, libVars>>

\* The host application answers: httpRequest returns, to POST or to the loop.
FetchResolve ==
    /\ pc = "fetching"
    /\ LET res == HttpRequestEnd(inflight, HostReply(inflight))
       IN  IF ToolName = "http.request"
               THEN Return(res) /\ UNCHANGED <<idx, results, ok, failed>>
               ELSE /\ Push(res.body)
                    /\ idx' = idx + 1
                    /\ pc' = "loop"
                    /\ UNCHANGED response
    /\ inflight' = Nothing
    /\ UNCHANGED <<env, request, fetchLog, libVars>>

\* The host application cannot be reached: fetch rejects.  Nothing between
\* fetch and the caller of POST catches, so the handler ends by throwing.
FetchReject ==
    /\ pc = "fetching"
    /\ pc' = "thrown"
    /\ inflight' = Nothing
    /\ UNCHANGED <<env, request, idx, results, ok, failed, fetchLog, response, libVars>>

\* httpBulk: after the loop.
BulkReturn ==
    /\ pc = "loop"
    /\ idx > Len(ToolInput.requests)
    /\ Return(BulkResult(results, ok, failed))
    /\ UNCHANGED <<env, request, idx, results, ok, failed, inflight, fetchLog, libVars>>

\* The handler is over; its locals are gone.
Finish ==
    /\ pc \in {"done", "thrown"}
    /\ pc' = "idle"
    /\ request' = Nothing
    /\ idx' = 0
    /\ results' = << >>
    /\ ok' = 0
    /\ failed' = 0
    /\ inflight' = Nothing
    /\ fetchLog' = << >>
    /\ response' = Nothing
    /\ UNCHANGED <<env, libVars>>

\* The operator changes a variable of the environment.
SetEnv(k, v) ==
    /\ env[k] # v
    /\ env' = [env EXCEPT ![k] = v]
    /\ UNCHANGED <<pc, request, idx, results, ok, failed, inflight, fetchLog, response, libVars>>

Next ==
    \/ \E req \in Requests : POST(req)
    \/ BulkIter
    \/ FetchResolve
    \/ FetchReject
    \/ BulkReturn
    \/ Finish
    \/ \E k \in DOMAIN EnvValues : \E v \in EnvValues[k] : SetEnv(k, v)

Spec == Init /\ [][Next]_vars

--------------------------------------------------------------------------
\* Text.  Where the code looks inside a string (a regular expression, a
\* comparison, includes), the string is the sequence of its characters.

\* The printable characters of ASCII in the order of their codes, from the
\* space (32) to the tilde (126); the grave accent (96) is spelled out.
Ascii ==
    <<" ", "!", "\"", "#", "$", "%", "&", "'", "(", ")", "*", "+", ",", "-", ".", "/",
      "0", "1", "2", "3", "4", "5", "6", "7", "8", "9", ":", ";", "<", "=", ">", "?", "@",
      "A", "B", "C", "D", "E", "F", "G", "H", "I", "J", "K", "L", "M",
      "N", "O", "P", "Q", "R", "S", "T", "U", "V", "W", "X", "Y", "Z",
      "[", "\\", "]", "^", "_", "grave",
      "a", "b", "c", "d", "e", "f", "g", "h", "i", "j", "k", "l", "m",
      "n", "o", "p", "q", "r", "s", "t", "u", "v", "w", "x", "y", "z",
      "{", "|", "}", "~">>

\* The code unit of a character.
CharCode == [c \in {Ascii[i] : i \in 1..Len(Ascii)} |-> 31 + CHOOSE i \in 1..Len(Ascii) : Ascii[i] = c]

IsUpperChar(c) == c \in DOMAIN CharCode /\ CharCode[c] \in 65..90

IsLowerChar(c) == c \in DOMAIN CharCode /\ CharCode[c] \in 97..122

IsDigitChar(c) == c \in DOMAIN CharCode /\ CharCode[c] \in 48..57

\* [a-zA-Z0-9]
IsAlnumChar(c) == IsUpperChar(c) \/ IsLowerChar(c) \/ IsDigitChar(c)

\* String.prototype.toUpperCase and toLowerCase, character by character.
StrUpper(s) == [i \in 1..Len(s) |-> IF IsLowerChar(s[i]) THEN Ascii[CharCode[s[i]] - 31 - 32] ELSE s[i]]

StrLower(s) == [i \in 1..Len(s) |-> IF IsUpperChar(s[i]) THEN Ascii[CharCode[s[i]] - 31 + 32] ELSE s[i]]

\* a < b on strings: the order of the code units.
RECURSIVE StrLess(_, _)
StrLess(a, b) ==
    IF Len(b) = 0 THEN FALSE
    ELSE IF Len(a) = 0 THEN TRUE
    ELSE IF a[1] = b[1] THEN StrLess(Tail(a), Tail(b))
    ELSE CharCode[a[1]] < CharCode[b[1]]

\* String.prototype.indexOf(c, i), counted from 1; 0 when c is not found.
RECURSIVE IndexFrom(_, _, _)
IndexFrom(s, c, i) ==
    IF i > Len(s) THEN 0
    ELSE IF s[i] = c THEN i
    ELSE IndexFrom(s, c, i + 1)

\* String.prototype.includes
StrIncludes(s, t) ==
    \E i \in 1..(Len(s) - Len(t) + 1) : SubSeq(s, i, i + Len(t) - 1) = t

--------------------------------------------------------------------------
\* The method catalog (ai-methods).

\* The matches of /\[([^\]]+)\]/g in s from i on: for each, the positions
\* of its two brackets.
RECURSIVE BracketMatches(_, _)
BracketMatches(s, i) ==
    IF i > Len(s) THEN << >>
    ELSE IF s[i] = "[" /\ IndexFrom(s, "]", i + 1) > i + 1
        THEN <<<<i, IndexFrom(s, "]", i + 1)>>>> \o BracketMatches(s, IndexFrom(s, "]", i + 1) + 1)
    ELSE BracketMatches(s, i + 1)

\* extractPathParams: the captures of the matches.
extractPathParams(pathTemplate) ==
    LET ms == BracketMatches(pathTemplate, 1)
    IN  [k \in 1..Len(ms) |-> SubSeq(pathTemplate, ms[k][1] + 1, ms[k][2] - 1)]

\* .replace(/^\//, '')
StripLeadingSlash(s) == IF Len(s) > 0 /\ s[1] = "/" THEN Tail(s) ELSE s

\* .replace(/\[([^\]]+)\]/g, '$1')
RECURSIVE Unbracket(_, _)
Unbracket(s, i) ==
    IF i > Len(s) THEN << >>
    ELSE IF s[i] = "[" /\ IndexFrom(s, "]", i + 1) > i + 1
        THEN SubSeq(s, i + 1, IndexFrom(s, "]", i + 1) - 1)
                 \o Unbracket(s, IndexFrom(s, "]", i + 1) + 1)
    ELSE <<s[i]>> \o Unbracket(s, i + 1)

\* .replace(/[^a-zA-Z0-9]+/g, '_') on s[lo..hi]: a character of
\* [a-zA-Z0-9] is kept, and a run of others leaves one underscore where it
\* starts.
RECURSIVE SquashNonAlnum(_, _, _)
SquashNonAlnum(s, lo, hi) ==
    IF lo > hi THEN << >>
    ELSE IF lo < hi
        THEN SquashNonAlnum(s, lo, (lo + hi) \div 2) \o SquashNonAlnum(s, (lo + hi) \div 2 + 1, hi)
    ELSE IF IsAlnumChar(s[lo]) THEN <<s[lo]>>
    ELSE IF lo > 1 /\ ~IsAlnumChar(s[lo - 1]) THEN << >>
    ELSE <<"_">>

\* .replace(/_+/g, '_') on s[lo..hi]
RECURSIVE SquashUnderscores(_, _, _)
SquashUnderscores(s, lo, hi) ==
    IF lo > hi THEN << >>
    ELSE IF lo < hi
        THEN SquashUnderscores(s, lo, (lo + hi) \div 2)
                 \o SquashUnderscores(s, (lo + hi) \div 2 + 1, hi)
    ELSE IF s[lo] = "_" /\ lo > 1 /\ s[lo - 1] = "_" THEN << >>
    ELSE <<s[lo]>>

\* .replace(/^_+|_+$/g, '')
RECURSIVE TrimUnderscores(_)
TrimUnderscores(s) ==
    IF Len(s) > 0 /\ s[1] = "_" THEN TrimUnderscores(Tail(s))
    ELSE IF Len(s) > 0 /\ s[Len(s)] = "_" THEN TrimUnderscores(SubSeq(s, 1, Len(s) - 1))
    ELSE s

\* The cleaned path of methodNameFor.
CleanedPath(pathTemplate) ==
    LET unbracketed == Unbracket(StripLeadingSlash(pathTemplate), 1)
        squashed == SquashNonAlnum(unbracketed, 1, Len(unbracketed))
    IN  StrLower(TrimUnderscores(SquashUnderscores(squashed, 1, Len(squashed))))

\* `route_${cleaned}__${m}`
methodNameFor(pathTemplate, method) ==
    <<"r", "o", "u", "t", "e", "_">> \o CleanedPath(pathTemplate) \o <<"_", "_">> \o StrUpper(method)

\* String.prototype.trim
RECURSIVE StrTrim(_)
StrTrim(s) ==
    IF Len(s) > 0 /\ s[1] = " " THEN StrTrim(Tail(s))
    ELSE IF Len(s) > 0 /\ s[Len(s)] = " " THEN StrTrim(SubSeq(s, 1, Len(s) - 1))
    ELSE s

\* ep.methodDocs?.[m] || ep.summary || ''
DocOf(ep, m) ==
    IF Has(ep, "methodDocs") /\ m \in DOMAIN ep.methodDocs /\ ep.methodDocs[m] # << >>
        THEN ep.methodDocs[m]
    ELSE IF Has(ep, "summary") THEN ep.summary
    ELSE << >>

\* `${m} ${ep.pathTemplate}${doc ? ` - ${doc}` : ''}`.trim(), the dash being
\* an em dash, a character of its own that is spelled out here.
DescriptionOf(ep, m) ==
    StrTrim(m \o <<" ">> \o ep.pathTemplate
              \o (IF DocOf(ep, m) # << >> THEN <<" ", "emdash", " ">> \o DocOf(ep, m) ELSE << >>))

\* MethodSpecOf with readOnly computed from the verb as the endpoint spells it.
MethodSpecOf_VerbAsSpelled(ep, method) ==
    LET m == StrUpper(method)
        base == [name |-> methodNameFor(ep.pathTemplate, m),
                 method |-> m,
                 pathTemplate |-> ep.pathTemplate,
                 description |-> DescriptionOf(ep, m),
                 pathParams |-> extractPathParams(ep.pathTemplate),
                 readOnly |-> method = <<"G", "E", "T">>]
    IN  IF Has(ep, "requiredBodyFields") /\ m \in DOMAIN ep.requiredBodyFields
            THEN base @@ [requiredBodyFields |-> ep.requiredBodyFields[m]]
            ELSE base

\* The MethodSpec buildMethodCatalog pushes for a method of an endpoint.
MethodSpecOf(ep, method) ==
    LET m == StrUpper(method)
        base == [name |-> methodNameFor(ep.pathTemplate, m),
                 method |-> m,
                 pathTemplate |-> ep.pathTemplate,
                 description |-> DescriptionOf(ep, m),
                 pathParams |-> extractPathParams(ep.pathTemplate),
                 readOnly |-> m = <<"G", "E", "T">>]
    IN  IF Has(ep, "requiredBodyFields") /\ m \in DOMAIN ep.requiredBodyFields
            THEN base @@ [requiredBodyFields |-> ep.requiredBodyFields[m]]
            ELSE base

\* for (const method of methods): the specs of the methods of ep from j on,
\* the empty method skipped.
RECURSIVE SpecsOfEndpoint(_, _)
SpecsOfEndpoint(ep, j) ==
    IF j > Len(ep.methods) THEN << >>
    ELSE IF StrUpper(ep.methods[j]) = << >> THEN SpecsOfEndpoint(ep, j + 1)
    ELSE <<MethodSpecOf(ep, ep.methods[j])>> \o SpecsOfEndpoint(ep, j + 1)

\* for (const ep of endpoints)
RECURSIVE SpecsOfEndpoints(_, _)
SpecsOfEndpoints(endpoints, i) ==
    IF i > Len(endpoints) THEN << >>
    ELSE SpecsOfEndpoint(endpoints[i], 1) \o SpecsOfEndpoints(endpoints, i + 1)

\* out.sort((a, b) => (a.name < b.name ? -1 : a.name > b.name ? 1 : 0)):
\* Array.prototype.sort is stable, so x goes behind the specs whose name is
\* not greater than its own.
InsertByName(sorted, x) ==
    LET k == Cardinality({j \in 1..Len(sorted) : ~StrLess(x.name, sorted[j].name)})
    IN  SubSeq(sorted, 1, k) \o <<x>> \o SubSeq(sorted, k + 1, Len(sorted))

\* The first i - 1 specs of out are sorted; the others are to be put in.
RECURSIVE SortByName(_, _, _)
SortByName(out, i, sorted) ==
    IF i > Len(out) \/ Len(sorted) # i - 1 THEN sorted
    ELSE SortByName(out, i + 1, InsertByName(sorted, out[i]))

\* const endpoints = Array.isArray(caps.endpoints) ? caps.endpoints : []
EndpointsOf(c) == IF Has(c, "endpoints") THEN c.endpoints ELSE << >>

buildMethodCatalog(c) == SortByName(SpecsOfEndpoints(EndpointsOf(c), 1), 1, << >>)

--------------------------------------------------------------------------
\* The catalog builder on its own: a capabilities file is on disk and
\* buildMethodCatalog is called on it.

\* A capabilities file has at most MaxEndpoints endpoints.
MaxEndpoints == 2

\* The endpoints of the capabilities files: two routes of one entity, a
\* route with a parameter and its namesake without brackets, two routes
\* that differ in a separator, verbs in lower and mixed case, an empty verb
\* and a verb outside the five, and a route listed twice.
CatalogEndpoints ==
    {[pathTemplate |-> <<"/", "a", "p", "i", "/", "c", "r", "m", "/", "c", "o", "m", "p", "a", "n", "i", "e", "s">>, methods |-> <<<<"G", "E", "T">>, <<"P", "O", "S", "T">>>>,
      requiredBodyFields |-> (<<"P", "O", "S", "T">> :> <<<<"n", "a", "m", "e">>>>)],
     [pathTemplate |-> <<"/", "a", "p", "i", "/", "c", "r", "m", "/", "c", "o", "n", "t", "a", "c", "t", "s">>, methods |-> <<<<"G", "E", "T">>>>, summary |-> <<"C", "o", "n", "t", "a", "c", "t", "s">>],
     [pathTemplate |-> <<"/", "a", "p", "i", "/", "c", "r", "m", "/", "c", "o", "m", "p", "a", "n", "i", "e", "s", "/", "[", "i", "d", "]">>, methods |-> <<<<"G", "E", "T">>, <<"P", "U", "T">>, <<"D", "E", "L", "E", "T", "E">>>>],
     [pathTemplate |-> <<"/", "a", "p", "i", "/", "c", "r", "m", "/", "c", "o", "m", "p", "a", "n", "i", "e", "s", "/", "i", "d">>, methods |-> <<<<"G", "E", "T">>>>],
     [pathTemplate |-> <<"/", "a", "p", "i", "/", "a", "-", "b">>, methods |-> <<<<"g", "e", "t">>>>],
     [pathTemplate |-> <<"/", "a", "p", "i", "/", "a", "_", "b">>, methods |-> <<<<"G", "E", "T">>>>],
     [pathTemplate |-> <<"/", "a", "p", "i", "/", "c", "r", "m", "/", "c", "o", "m", "p", "a", "n", "i", "e", "s">>, methods |-> <<<<"p", "o", "s", "t">>, << >>, <<"P", "U", "R", "G", "E">>>>],
     [pathTemplate |-> <<"/", "a", "p", "i", "/", "T", "a", "s", "k", "s">>, methods |-> <<<<"P", "A", "T", "C", "H">>, <<"G", "e", "t">>>>,
      methodDocs |-> (<<"P", "A", "T", "C", "H">> :> <<"E", "d", "i", "t", " ", "a", " ", "t", "a", "s", "k">>)]}

CapsFiles ==
    {[generated |-> TRUE, endpoints |-> eps] :
        eps \in UNION {[1..n -> CatalogEndpoints] : n \in 0..MaxEndpoints}}

InitCatalog ==
    /\ env = [NODE_ENV |-> "production", HIT_AI_AUTO_APPROVE_WRITES |-> "0",
              HIT_AI_AUTO_APPROVE_DELETE |-> "0"]
    /\ pc = "idle"
    /\ request = Nothing
    /\ idx = 0
    /\ results = << >>
    /\ ok = 0
    /\ failed = 0
    /\ inflight = Nothing
    /\ fetchLog = << >>
    /\ response = Nothing
    /\ caps \in CapsFiles
    /\ catalog = << >>
    /\ cached = Nothing
    /\ now = 0
    /\ disk = << >>
    /\ scans = 0
    /\ found = << >>

\* const methods = buildMethodCatalog({ endpoints })
BuildMethodCatalog ==
    /\ catalog' = buildMethodCatalog(caps)
    /\ catalog' # catalog
    /\ UNCHANGED <<env, pc, request, idx, results, ok, failed, inflight, fetchLog, response>>
    /\ UNCHANGED <<caps, cached, now, disk, scans, found>>

NextCatalog == BuildMethodCatalog

SpecCatalog == InitCatalog /\ [][NextCatalog]_vars

--------------------------------------------------------------------------
\* The scorer of the method search (methods/search: normalize, entityBoost,
\* mismatchPenalty, score).

\* .replace(/[^a-z0-9]+/g, ' ') on s[lo..hi]: a character of [a-z0-9] is
\* kept, and a run of others leaves one space where it starts.
RECURSIVE SquashToSpace(_, _, _)
SquashToSpace(s, lo, hi) ==
    IF lo > hi THEN << >>
    ELSE IF lo < hi
        THEN SquashToSpace(s, lo, (lo + hi) \div 2) \o SquashToSpace(s, (lo + hi) \div 2 + 1, hi)
    ELSE IF IsLowerChar(s[lo]) \/ IsDigitChar(s[lo]) THEN <<s[lo]>>
    ELSE IF lo > 1 /\ ~(IsLowerChar(s[lo - 1]) \/ IsDigitChar(s[lo - 1])) THEN << >>
    ELSE <<" ">>

\* s.toLowerCase().replace(/[^a-z0-9]+/g, ' ').trim()
normalize(s) == StrTrim(SquashToSpace(StrLower(s), 1, Len(s)))

\* Array.prototype.join(' ')
RECURSIVE JoinSpace(_, _)
JoinSpace(parts, i) ==
    IF i > Len(parts) THEN << >>
    ELSE IF i = Len(parts) THEN parts[i]
    ELSE parts[i] \o <<" ">> \o JoinSpace(parts, i + 1)

\* String.prototype.split(' ')
RECURSIVE SplitSpace(_, _)
SplitSpace(s, i) ==
    LET j == IndexFrom(s, " ", i)
    IN  IF j = 0 THEN <<SubSeq(s, i, Len(s))>>
        ELSE <<SubSeq(s, i, j - 1)>> \o SplitSpace(s, j + 1)

STOPWORDS ==
    {<<"a">>, <<"a", "n">>, <<"a", "n", "d">>, <<"a", "r", "e">>, <<"a", "s">>,
     <<"a", "t">>, <<"b", "e">>, <<"b", "u", "t">>, <<"b", "y">>, <<"c", "a", "n">>,
     <<"c", "o", "u", "l", "d">>, <<"d", "i", "d">>, <<"d", "o">>,
     <<"d", "o", "e", "s">>, <<"f", "o", "r">>, <<"f", "r", "o", "m">>,
     <<"g", "e", "t">>, <<"g", "i", "v", "e">>, <<"h", "a", "v", "e">>,
     <<"h", "o", "w">>, <<"i">>, <<"i", "n">>, <<"i", "s">>, <<"i", "t">>,
     <<"j", "u", "s", "t">>, <<"l", "i", "s", "t">>, <<"m", "e">>, <<"m", "y">>,
     <<"o", "f">>, <<"o", "n">>, <<"o", "r">>, <<"p", "l", "e", "a", "s", "e">>,
     <<"s", "h", "o", "w">>, <<"t", "e", "l", "l">>, <<"t", "h", "a", "t">>,
     <<"t", "h", "e">>, <<"t", "h", "e", "r", "e">>, <<"t", "h", "i", "s">>,
     <<"t", "o">>, <<"u", "p">>, <<"w", "h", "a", "t">>, <<"w", "h", "e", "n">>,
     <<"w", "h", "e", "r", "e">>, <<"w", "h", "o">>, <<"w", "i", "t", "h">>,
     <<"w", "o", "u", "l", "d">>, <<"y", "o", "u">>, <<"y", "o", "u", "r">>}

Max(a, b) == IF a >= b THEN a ELSE b

Min(a, b) == IF a <= b THEN a ELSE b

\* qt.includes(' w ') for one of the words
Says(qt, words) == \E w \in words : StrIncludes(qt, <<" ">> \o w \o <<" ">>)

\* const qt = ` ${q} `
Padded(q) == <<" ">> \o q \o <<" ">>

\* What a condition adds: n when it holds.
When(cond, n) == IF cond THEN n ELSE 0

entityBoost(q, m) ==
    LET qt == Padded(q)
        p == StrLower(m.pathTemplate)
        contact == Says(qt, {<<"c", "o", "n", "t", "a", "c", "t">>, <<"c", "o", "n", "t", "a", "c", "t", "s">>})
        company == Says(qt, {<<"c", "o", "m", "p", "a", "n", "y">>, <<"c", "o", "m", "p", "a", "n", "i", "e", "s">>, <<"c", "u", "s", "t", "o", "m", "e", "r">>, <<"c", "u", "s", "t", "o", "m", "e", "r", "s">>})
        deal == Says(qt, {<<"d", "e", "a", "l">>, <<"d", "e", "a", "l", "s">>, <<"o", "p", "p", "o", "r", "t", "u", "n", "i", "t", "y">>, <<"o", "p", "p", "o", "r", "t", "u", "n", "i", "t", "i", "e", "s">>})
        b == When(contact /\ StrIncludes(p, <<"/", "c", "o", "n", "t", "a", "c", "t", "s">>), 12)
             - When(contact /\ StrIncludes(p, <<"/", "c", "o", "m", "p", "a", "n", "i", "e", "s">>), 6)
             + When(company /\ StrIncludes(p, <<"/", "c", "o", "m", "p", "a", "n", "i", "e", "s">>), 12)
             - When(company /\ StrIncludes(p, <<"/", "c", "o", "n", "t", "a", "c", "t", "s">>), 6)
             + When(deal /\ StrIncludes(p, <<"/", "d", "e", "a", "l", "s">>), 12)
             - When(deal /\ StrIncludes(p, <<"/", "c", "o", "m", "p", "a", "n", "i", "e", "s">>), 6)
             + When(Says(qt, {<<"a", "c", "t", "i", "v", "i", "t", "y">>, <<"a", "c", "t", "i", "v", "i", "t", "i", "e", "s">>, <<"c", "a", "l", "l">>, <<"m", "e", "e", "t", "i", "n", "g">>})
                        /\ StrIncludes(p, <<"/", "a", "c", "t", "i", "v", "i", "t", "i", "e", "s">>), 8)
             + When(Says(qt, {<<"t", "a", "s", "k">>, <<"t", "a", "s", "k", "s">>}) /\ StrIncludes(p, <<"/", "t", "a", "s", "k", "s">>), 8)
             + When(Says(qt, {<<"l", "o", "c", "a", "t", "i", "o", "n">>, <<"l", "o", "c", "a", "t", "i", "o", "n", "s">>}) /\ StrIncludes(p, <<"/", "l", "o", "c", "a", "t", "i", "o", "n", "s">>), 8)
             + When(Says(qt, {<<"m", "e", "t", "r", "i", "c">>, <<"m", "e", "t", "r", "i", "c", "s">>, <<"c", "a", "t", "a", "l", "o", "g">>}) /\ StrIncludes(p, <<"/", "m", "e", "t", "r", "i", "c", "s">>), 8)
             + When(Says(qt, {<<"q", "u", "e", "r", "y">>, <<"a", "g", "g", "r", "e", "g", "a", "t", "e">>, <<"s", "u", "m">>, <<"t", "o", "t", "a", "l">>, <<"a", "v", "e", "r", "a", "g", "e">>})
                        /\ StrIncludes(p, <<"/", "m", "e", "t", "r", "i", "c", "s", "/", "q", "u", "e", "r", "y">>), 10)
             + When(Says(qt, {<<"c", "o", "m", "p", "a", "r", "e">>, <<"c", "o", "m", "p", "a", "r", "i", "s", "o", "n">>, <<"t", "r", "e", "n", "d">>, <<"c", "h", "a", "n", "g", "e">>})
                        /\ StrIncludes(p, <<"/", "m", "e", "t", "r", "i", "c", "s", "/", "q", "u", "e", "r", "y">>), 8)
             + When(Says(qt, {<<"c", "a", "t", "a", "l", "o", "g">>}) /\ StrIncludes(p, <<"/", "c", "a", "t", "a", "l", "o", "g">>), 12)
    IN  IF Says(qt, {<<"c", "a", "t", "a", "l", "o", "g">>}) /\ StrIncludes(p, <<"/", "d", "e", "f", "i", "n", "i", "t", "i", "o", "n", "s">>) THEN Max(0, b - 6) ELSE b

mismatchPenalty(q, m) ==
    LET qt == Padded(q)
        p == StrLower(m.pathTemplate)
    IN  When(Says(qt, {<<"c", "o", "n", "t", "a", "c", "t">>, <<"c", "o", "n", "t", "a", "c", "t", "s">>}) /\ ~StrIncludes(p, <<"/", "c", "o", "n", "t", "a", "c", "t", "s">>), 15)
        + When(Says(qt, {<<"c", "o", "m", "p", "a", "n", "y">>, <<"c", "o", "m", "p", "a", "n", "i", "e", "s">>, <<"c", "u", "s", "t", "o", "m", "e", "r">>, <<"c", "u", "s", "t", "o", "m", "e", "r", "s">>})
                   /\ ~StrIncludes(p, <<"/", "c", "o", "m", "p", "a", "n", "i", "e", "s">>), 15)
        + When(Says(qt, {<<"d", "e", "a", "l">>, <<"d", "e", "a", "l", "s">>, <<"o", "p", "p", "o", "r", "t", "u", "n", "i", "t", "y">>, <<"o", "p", "p", "o", "r", "t", "u", "n", "i", "t", "i", "e", "s">>})
                   /\ ~StrIncludes(p, <<"/", "d", "e", "a", "l", "s">>), 15)
        + When(Says(qt, {<<"a", "c", "t", "i", "v", "i", "t", "y">>, <<"a", "c", "t", "i", "v", "i", "t", "i", "e", "s">>}) /\ ~StrIncludes(p, <<"/", "a", "c", "t", "i", "v", "i", "t", "i", "e", "s">>), 8)
        + When(Says(qt, {<<"p", "i", "p", "e", "l", "i", "n", "e">>}) /\ ~StrIncludes(p, <<"/", "p", "i", "p", "e", "l", "i", "n", "e">>), 6)
        + When(Says(qt, {<<"c", "a", "t", "a", "l", "o", "g">>}) /\ ~StrIncludes(p, <<"/", "c", "a", "t", "a", "l", "o", "g">>), 10)

\* normalize([m.name, m.method, m.pathTemplate, m.description,
\*            m.pathParams.join(' ')].join(' '))
HayOf(m) ==
    normalize(JoinSpace(<<m.name, m.method, m.pathTemplate, m.description,
                          JoinSpace(m.pathParams, 1)>>, 1))

\* for (const term of q.split(' ')): 3 for each term of three characters or
\* more that is no stopword and that hay includes.
RECURSIVE TermScore(_, _, _)
TermScore(terms, hay, i) ==
    IF i > Len(terms) THEN 0
    ELSE When(/\ Len(terms[i]) >= 3
              /\ terms[i] \notin STOPWORDS
              /\ StrIncludes(hay, terms[i]), 3)
         + TermScore(terms, hay, i + 1)

\* The bonus of an exact match.
ExactBonus == 30

\* IntentScore deaf to the words that ask to create.
IntentScore_NoCreate(q, m, base) ==
    LET qt == Padded(q)
        mm == StrUpper(m.method)
        isCreate == FALSE
        isUpdate == Says(qt, {<<"u", "p", "d", "a", "t", "e">>, <<"e", "d", "i", "t">>, <<"c", "h", "a", "n", "g", "e">>, <<"c", "o", "r", "r", "e", "c", "t">>, <<"f", "i", "x">>})
        isDelete == Says(qt, {<<"d", "e", "l", "e", "t", "e">>, <<"r", "e", "m", "o", "v", "e">>})
        isList == Says(qt, {<<"l", "i", "s", "t">>, <<"s", "h", "o", "w">>, <<"v", "i", "e", "w">>, <<"c", "u", "r", "r", "e", "n", "t", " ", "v", "i", "e", "w">>, <<"o", "n", " ", "t", "h", "i", "s", " ", "p", "a", "g", "e">>, <<"o", "n", " ", "t", "h", "i", "s", " ", "s", "c", "r", "e", "e", "n">>})
        s1 == base + When(isDelete /\ mm = <<"D", "E", "L", "E", "T", "E">>, 10)
        s2 == s1 + When((isUpdate \/ isCreate) /\ mm \in {<<"P", "U", "T">>, <<"P", "A", "T", "C", "H">>}, 6)
        s3 == s2 + When(isCreate /\ mm = <<"P", "O", "S", "T">>, 8)
        s4 == IF (isCreate \/ isUpdate \/ isDelete) /\ mm = <<"G", "E", "T">> THEN Max(0, s3 - 2) ELSE s3
        s5 == s4 + When(isList /\ mm = <<"G", "E", "T">>, 3)
    IN  IF StartsWith(m.pathTemplate, <<"/", "a", "p", "i", "/", "a", "i", "/">>) THEN Max(0, s5 - 3) ELSE s5

\* The end of score: the bonuses and penalties of the intent of the query,
\* on the score base of the terms and the entity.
IntentScore(q, m, base) ==
    LET qt == Padded(q)
        mm == StrUpper(m.method)
        isCreate == Says(qt, {<<"a", "d", "d">>, <<"c", "r", "e", "a", "t", "e">>, <<"n", "e", "w">>, <<"m", "a", "k", "e">>, <<"l", "o", "g">>, <<"r", "e", "c", "o", "r", "d">>})
        isUpdate == Says(qt, {<<"u", "p", "d", "a", "t", "e">>, <<"e", "d", "i", "t">>, <<"c", "h", "a", "n", "g", "e">>, <<"c", "o", "r", "r", "e", "c", "t">>, <<"f", "i", "x">>})
        isDelete == Says(qt, {<<"d", "e", "l", "e", "t", "e">>, <<"r", "e", "m", "o", "v", "e">>})
        isList == Says(qt, {<<"l", "i", "s", "t">>, <<"s", "h", "o", "w">>, <<"v", "i", "e", "w">>, <<"c", "u", "r", "r", "e", "n", "t", " ", "v", "i", "e", "w">>, <<"o", "n", " ", "t", "h", "i", "s", " ", "p", "a", "g", "e">>, <<"o", "n", " ", "t", "h", "i", "s", " ", "s", "c", "r", "e", "e", "n">>})
        s1 == base + When(isDelete /\ mm = <<"D", "E", "L", "E", "T", "E">>, 10)
        s2 == s1 + When((isUpdate \/ isCreate) /\ mm \in {<<"P", "U", "T">>, <<"P", "A", "T", "C", "H">>}, 6)
        s3 == s2 + When(isCreate /\ mm = <<"P", "O", "S", "T">>, 8)
        s4 == IF (isCreate \/ isUpdate \/ isDelete) /\ mm = <<"G", "E", "T">> THEN Max(0, s3 - 2) ELSE s3
        s5 == s4 + When(isList /\ mm = <<"G", "E", "T">>, 3)
    IN  IF StartsWith(m.pathTemplate, <<"/", "a", "p", "i", "/", "a", "i", "/">>) THEN Max(0, s5 - 3) ELSE s5

\* score, once hay is computed.
ScoreOnHay(q, m, hay) ==
    IF hay = << >> THEN 0
    ELSE IF q # << >> /\ StrIncludes(hay, q) THEN ExactBonus
    ELSE IntentScore(q, m, TermScore(SplitSpace(q, 1), hay, 1)
                               + entityBoost(q, m) - mismatchPenalty(q, m))

\* The value of the one element of a set: a local that is computed once.
TheOne(S) == CHOOSE x \in S : TRUE

score(q, m) == TheOne({ScoreOnHay(q, m, hay) : hay \in {HayOf(m)}})

--------------------------------------------------------------------------
\* The routes GET /api/ai/methods and GET /api/ai/methods/search.

\* Number(text) for the texts of the limit parameter: whether the number is
\* finite and, when it is, ten times the number.
NumberOf(text) ==
    CASE text = "0" -> [finite |-> TRUE, tenths |-> 0]
      [] text = "-5" -> [finite |-> TRUE, tenths |-> -50]
      [] text = "2.7" -> [finite |-> TRUE, tenths |-> 27]
      [] text = "3" -> [finite |-> TRUE, tenths |-> 30]
      [] text = "12" -> [finite |-> TRUE, tenths |-> 120]
      [] text = "50" -> [finite |-> TRUE, tenths |-> 500]
      [] text = "51" -> [finite |-> TRUE, tenths |-> 510]
      [] OTHER -> [finite |-> FALSE, tenths |-> 0]

\* Math.trunc of the number that is tenths / 10
MathTrunc(tenths) == IF tenths >= 0 THEN tenths \div 10 ELSE -((-tenths) \div 10)

\* const limitRaw = Number(searchParams.get('limit') || '12');
\* const limit = Number.isFinite(limitRaw)
\*     ? Math.max(1, Math.min(50, Math.trunc(limitRaw))) : 12
LimitOf(params) ==
    LET limitRaw == NumberOf(IF Has(params, "limit") /\ params.limit # "" THEN params.limit ELSE "12")
    IN  IF limitRaw.finite THEN Max(1, Min(50, MathTrunc(limitRaw.tenths))) ELSE 12

\* (searchParams.get('q') || '').trim()
QRawOf(params) == IF Has(params, "q") THEN StrTrim(params.q) ELSE << >>

\* (searchParams.get('pack') || '').trim()
PackRawOf(params) == IF Has(params, "pack") THEN StrTrim(params.pack) ELSE << >>

\* The handler of GET /api/ai/methods, on the capabilities file c.
MethodsHandler(req, c) ==
    IF ~HasUser(req)
        THEN [status |-> 401, body |-> [error |-> "Unauthorized"]]
        ELSE [status |-> 200,
              body |-> [generated |-> Has(c, "generated") /\ c.generated,
                        kind |-> "hit-method-catalog",
                        methods |-> buildMethodCatalog(c)]]

\* Array.isArray(data?.methods) ? data.methods : []
MethodsOfReply(reply) == IF Has(reply.body, "methods") THEN reply.body.methods ELSE << >>

\* The methods of the pack, or all of them when no pack or 'all' is asked.
FilterPack(methods, packRaw) ==
    IF packRaw # << >> /\ StrLower(packRaw) # <<"a", "l", "l">>
        THEN SelectSeq(methods, LAMBDA m : Has(m, "featurePack")
                                           /\ StrLower(m.featurePack) = StrLower(packRaw))
        ELSE methods

\* .map((m) => ({ m, score: score(q, m) }))
ScoreAll(q, methods) == [i \in 1..Len(methods) |-> [m |-> methods[i], score |-> score(q, methods[i])]] \o << >>

\* .sort((a, b) => b.score - a.score): Array.prototype.sort is stable, so x
\* goes behind the entries whose score is not less than its own.
InsertByScore(sorted, x) ==
    LET k == Cardinality({j \in 1..Len(sorted) : sorted[j].score >= x.score})
    IN  SubSeq(sorted, 1, k) \o <<x>> \o SubSeq(sorted, k + 1, Len(sorted))

\* The first i - 1 entries of xs are sorted; the others are to be put in.
RECURSIVE SortByScore(_, _, _)
SortByScore(xs, i, sorted) ==
    IF i > Len(xs) \/ Len(sorted) # i - 1 THEN sorted
    ELSE SortByScore(xs, i + 1, InsertByScore(sorted, xs[i]))

\* Rank with the entries of score 0 kept.
Rank_KeepZero(scored, limit) ==
    LET positive == SelectSeq(scored, LAMBDA x : x.score >= 0)
        sorted == SortByScore(positive, 1, << >>)
        top == SubSeq(sorted, 1, Min(limit, Len(sorted)))
    IN  [k \in 1..Len(top) |-> top[k].m]

\* .filter((x) => x.score > 0).sort(...).slice(0, limit).map((x) => x.m)
Rank(scored, limit) ==
    LET positive == SelectSeq(scored, LAMBDA x : x.score > 0)
        sorted == SortByScore(positive, 1, << >>)
        top == SubSeq(sorted, 1, Min(limit, Len(sorted)))
    IN  [k \in 1..Len(top) |-> top[k].m]

\* The candidates of the search with the parameters params, when the
\* methods route has answered reply.
Candidates(params, reply) ==
    TheOne({Rank(scored, LimitOf(params)) :
               scored \in {ScoreAll(q, FilterPack(MethodsOfReply(reply), PackRawOf(params))) :
                              q \in {normalize(QRawOf(params))}}})

\* fetch(`${origin}/api/ai/methods`,
\*       { headers: { authorization: request.headers.get('authorization') || '' } })
MethodsFetchOf(req) ==
    [method |-> "GET",
     url |-> [pathname |-> <<"/", "a", "p", "i", "/", "a", "i", "/", "m", "e", "t", "h", "o", "d", "s">>, search |-> "null"],
     headers |-> [authorization |-> IF Has(req.headers, "authorization")
                                        THEN req.headers.authorization
                                        ELSE EmptyAuthorization]]

\* GET /api/ai/methods
MethodsGET(req) ==
    /\ pc = "idle"
    /\ request' = req
    /\ Return(MethodsHandler(req, caps))
    /\ UNCHANGED <<env, idx, results, ok, failed, inflight, fetchLog, libVars>>

\* GET /api/ai/methods/search, up to its await of fetch.
SearchGET(req) ==
    /\ pc = "idle"
    /\ request' = req
    /\ IF ~HasUser(req)
           THEN /\ Return([status |-> 401, body |-> [error |-> "Unauthorized"]])
                /\ UNCHANGED <<inflight, fetchLog>>
           ELSE /\ inflight' = MethodsFetchOf(req)
                /\ fetchLog' = Append(fetchLog, [entry |-> 0, sent |-> MethodsFetchOf(req)])
                /\ pc' = "awaiting methods"
                /\ UNCHANGED response
    /\ UNCHANGED <<env, idx, results, ok, failed, libVars>>

\* The methods route answers the fetch of the search, which ranks what it
\* gets and returns.
SearchResolve ==
    /\ pc = "awaiting methods"
    /\ \E reply \in {MethodsHandler([headers |-> inflight.headers], caps)} :
           \E candidates \in {Candidates(request.searchParams, reply)} :
               Return([status |-> 200,
                       body |-> [query |-> QRawOf(request.searchParams),
                                 pack |-> PackRawOf(request.searchParams),
                                 candidates |-> candidates]])
    /\ inflight' = Nothing
    /\ UNCHANGED <<env, request, idx, results, ok, failed, fetchLog, libVars>>

\* The fetch of the search rejects: nothing catches it.
SearchReject ==
    /\ pc = "awaiting methods"
    /\ pc' = "thrown"
    /\ inflight' = Nothing
    /\ UNCHANGED <<env, request, idx, results, ok, failed, fetchLog, response, libVars>>

\* The decimal digits of a number below 100.
Decimal(n) ==
    IF n < 10 THEN <<Ascii[17 + n]>> ELSE <<Ascii[17 + (n \div 10)], Ascii[17 + (n % 10)]>>

\* The routes of the large project: more than a search returns at most.
BigRoutes == 52

\* The capabilities files of the searches: the three methods of two
\* entities, a project with BigRoutes routes of tasks, every third of which
\* only takes POST, and a capabilities file without endpoints.
CrmCaps ==
    [generated |-> TRUE,
     endpoints |-> <<[pathTemplate |-> <<"/", "a", "p", "i", "/", "c", "r", "m", "/", "c", "o", "m", "p", "a", "n", "i", "e", "s">>, methods |-> <<<<"P", "O", "S", "T">>, <<"G", "E", "T">>>>],
                     [pathTemplate |-> <<"/", "a", "p", "i", "/", "c", "r", "m", "/", "c", "o", "n", "t", "a", "c", "t", "s">>, methods |-> <<<<"G", "E", "T">>>>]>>]

BigCaps ==
    [generated |-> TRUE,
     endpoints |-> [n \in 1..BigRoutes |->
                       [pathTemplate |-> <<"/", "a", "p", "i", "/", "t", "a", "s", "k", "s", "/", "t">> \o Decimal(n),
                        methods |-> IF n % 3 = 0 THEN <<<<"P", "O", "S", "T">>>> ELSE <<<<"G", "E", "T">>>>]]]

SearchCaps == {CrmCaps, BigCaps, [generated |-> FALSE]}

SearchQueries ==
    {<<"c", "r", "e", "a", "t", "e", " ", "a", " ", "c", "o", "m", "p", "a", "n", "y">>, <<" ", " ", "C", "r", "e", "a", "t", "e", " ", "a", " ", "C", "o", "m", "p", "a", "n", "y", "!", " ">>, <<"c", "r", "e", "a", "t", "e", " ", "r", "o", "u", "t", "e", " ", "a", "p", "i", " ", "c", "r", "m", " ", "c", "o", "m", "p", "a", "n", "i", "e", "s">>,
     <<"c", "r", "m">>, <<"t", "a", "s", "k", "s">>, <<"c", "r", "e", "a", "t", "e", " ", "t", "a", "s", "k">>, <<"l", "i", "s", "t", " ", "t", "h", "e", " ", "t", "a", "s", "k", "s">>, <<"d", "e", "l", "e", "t", "e", " ", "c", "o", "n", "t", "a", "c", "t">>, <<"z", "z", "z">>}

LimitTexts == {"", "abc", "0", "-5", "2.7", "3", "50", "51", "Infinity"}

SearchParams ==
    {Obj([q |-> q, limit |-> l]) : q \in Opt(SearchQueries), l \in Opt(LimitTexts)}
        \cup {[q |-> q, pack |-> pk] : q \in {<<"c", "r", "m">>, <<"t", "a", "s", "k", "s">>}, pk \in {<<"a", "l", "l">>, <<"c", "r", "m">>}}

\* The callers of the searches: none, a bearer token, the cookie of a
\* session.
SearchHeaders ==
    {Nothing, [authorization |-> BearerAlice],
     [cookie |-> <<[name |-> "hit_token", value |-> "h.alice.s"]>>]}

SearchCalls ==
    {[url |-> "/api/ai/methods/search", headers |-> h, searchParams |-> sp] :
        h \in SearchHeaders, sp \in SearchParams}

MethodsCalls == {[url |-> "/api/ai/methods", headers |-> h] : h \in SearchHeaders}

InitSearch ==
    /\ env = [NODE_ENV |-> "production", HIT_AI_AUTO_APPROVE_WRITES |-> "0",
              HIT_AI_AUTO_APPROVE_DELETE |-> "0"]
    /\ pc = "idle"
    /\ request = Nothing
    /\ idx = 0
    /\ results = << >>
    /\ ok = 0
    /\ failed = 0
    /\ inflight = Nothing
    /\ fetchLog = << >>
    /\ response = Nothing
    /\ caps \in SearchCaps
    /\ catalog = << >>
    /\ cached = Nothing
    /\ now = 0
    /\ disk = << >>
    /\ scans = 0
    /\ found = << >>

NextSearch ==
    \/ \E req \in SearchCalls : SearchGET(req)
    \/ SearchResolve
    \/ SearchReject
    \/ \E req \in MethodsCalls : MethodsGET(req)
    \/ Finish

SpecSearch == InitSearch /\ [][NextSearch]_vars

--------------------------------------------------------------------------
\* The proxy of the AI module (proxyRequest and the handlers of its route).
\* A variable of the environment that is not set is "".  The x-forwarded-for
\* header is the sequence of its parts between commas, trimmed.

getAiModuleUrl(e) ==
    IF e.HIT_AI_URL # "" THEN e.HIT_AI_URL
    ELSE IF e.NODE_ENV = "development" THEN "http://localhost:8000"
    ELSE ""

\* The address of the client, "" when no header names one.
getClientIP(req) ==
    IF /\ Has(req.headers, "xForwardedFor")
       /\ req.headers.xForwardedFor # << >>
       /\ req.headers.xForwardedFor[1] # ""
        THEN req.headers.xForwardedFor[1]
    ELSE IF Has(req.headers, "xRealIp") /\ req.headers.xRealIp # ""
        THEN req.headers.xRealIp
    ELSE ""

\* The headers proxyRequest sends to the AI module.
ProxyHeaders(req, e) ==
    LET auth == IF Has(req.headers, "authorization") /\ req.headers.authorization # EmptyAuthorization
                    THEN {req.headers.authorization}
                ELSE IF Has(req.headers, "cookie") /\ CookieToken(req.headers.cookie, 1) # ""
                    THEN {[scheme |-> "Bearer", credentials |-> CookieToken(req.headers.cookie, 1)]}
                ELSE {}
        ip == IF getClientIP(req) # "" THEN {getClientIP(req)} ELSE {}
        userAgent == IF Has(req.headers, "userAgent") /\ req.headers.userAgent # ""
                         THEN {req.headers.userAgent} ELSE {}
        serviceToken == IF e.HIT_SERVICE_TOKEN # "" THEN {e.HIT_SERVICE_TOKEN} ELSE {}
    IN  Obj([contentType |-> {"application/json"}, authorization |-> auth,
             xForwardedFor |-> ip, xRealIp |-> ip,
             xForwardedUserAgent |-> userAgent, userAgent |-> userAgent,
             xHitServiceToken |-> serviceToken])

\* The request proxyRequest hands to fetch.
ProxyFetchOf(req, e) ==
    LET body == IF req.method \in {"POST", "PUT", "PATCH", "DELETE"} /\ req.text # ""
                    THEN {req.text} ELSE {}
    IN  Obj([method |-> {req.method},
             url |-> {[base |-> getAiModuleUrl(e), path |-> req.path, search |-> req.search]},
             headers |-> {ProxyHeaders(req, e)},
             redirect |-> {"manual"},
             body |-> body])

\* What proxyRequest returns once the AI module has answered.
ProxyEnd(reply) ==
    IF reply.status >= 300 /\ reply.status < 400 /\ Has(reply, "location") /\ reply.location # ""
        THEN [status |-> reply.status, redirect |-> reply.location,
              headers |-> [xProxiedFrom |-> "ai"]]
    ELSE [status |-> reply.status, body |-> reply.text, headers |-> [xProxiedFrom |-> "ai"]]

\* GET, POST, PUT, PATCH and DELETE of the proxy: proxyRequest, up to its
\* await of fetch.
ProxyRequest(req) ==
    /\ pc = "idle"
    /\ request' = req
    /\ IF ~HasUser(req)
           THEN /\ Return([status |-> 401,
                           body |-> [error |-> "Unauthorized - authentication required for AI features"]])
                /\ UNCHANGED <<inflight, fetchLog>>
       ELSE IF getAiModuleUrl(env) = ""
           THEN /\ Return([status |-> 503, body |-> [error |-> "AI module not configured"]])
                /\ UNCHANGED <<inflight, fetchLog>>
       ELSE /\ inflight' = ProxyFetchOf(req, env)
            /\ fetchLog' = Append(fetchLog, [entry |-> 0, sent |-> ProxyFetchOf(req, env)])
            /\ pc' = "proxying"
            /\ UNCHANGED response
    /\ UNCHANGED <<env, idx, results, ok, failed, libVars>>

\* The AI module answers.
ProxyResolve(reply) ==
    /\ pc = "proxying"
    /\ Return(ProxyEnd(reply))
    /\ inflight' = Nothing
    /\ UNCHANGED <<env, request, idx, results, ok, failed, fetchLog, libVars>>

\* The AI module cannot be reached, or its answer cannot be read.
ProxyReject ==
    /\ pc = "proxying"
    /\ Return([status |-> 502,
               body |-> [error |-> "Failed to proxy request to AI module", path |-> request.path]])
    /\ inflight' = Nothing
    /\ UNCHANGED <<env, request, idx, results, ok, failed, fetchLog, libVars>>

\* OPTIONS of the proxy.
OPTIONS(req) ==
    /\ pc = "idle"
    /\ request' = req
    /\ Return([status |-> 200,
               headers |-> [accessControlAllowOrigin |-> "*",
                            accessControlAllowMethods |-> "GET, POST, PUT, PATCH, DELETE, OPTIONS",
                            accessControlAllowHeaders |-> "Content-Type, Authorization"]])
    /\ UNCHANGED <<env, idx, results, ok, failed, inflight, fetchLog, libVars>>

--------------------------------------------------------------------------
\* The callers: every route under every kind of credentials.

AuthValues ==
    {EmptyAuthorization, BearerAlice,
     [scheme |-> "Bearer", credentials |-> "h.old.s"],
     [scheme |-> "Bearer", credentials |-> "h.anon.s"],
     [scheme |-> "Bearer", credentials |-> "h.junk.s"],
     [scheme |-> "Bearer", credentials |-> "opaque"],
     [scheme |-> "Bearer", credentials |-> ""],
     [scheme |-> "Basic", credentials |-> "dXNlcjpwdw"]}

CookieValues ==
    {<< >>,
     <<[name |-> "session", value |-> "s1"]>>,
     <<[name |-> "session", value |-> "s1"], [name |-> "hit_token", value |-> "h.alice.s"]>>,
     <<[name |-> "hit_token", value |-> "h.old.s"]>>,
     <<[name |-> "hit_token", value |-> ""]>>}

CallerHeaders ==
    {Obj([authorization |-> a, cookie |-> c]) : a \in Opt(AuthValues), c \in Opt(CookieValues)}

\* What says where the proxied request comes from.
ClientHeaders ==
    {Nothing,
     [xForwardedFor |-> <<"10.0.0.1", "10.0.0.2">>, xRealIp |-> "10.0.0.3"],
     [xForwardedFor |-> <<"">>, xRealIp |-> "10.0.0.3", userAgent |-> "curl/8"]}

CallerBodies ==
    {[toolName |-> "http.request", input |-> [method |-> "GET", path |-> P_ok]],
     [toolName |-> "http.request",
      input |-> [method |-> "POST", path |-> P_ok, body |-> "{name:Acme}"]],
     [toolName |-> "http.request",
      input |-> [method |-> "DELETE", path |-> P_ok, approved |-> TRUE]],
     [toolName |-> "http.request", input |-> [method |-> "GET", path |-> P_outside]],
     [toolName |-> "http.bulk",
      input |-> [requests |-> <<[method |-> "GET", path |-> P_ok],
                               [method |-> "POST", path |-> P_ok, body |-> "{name:Acme}"]>>,
                 approved |-> TRUE]],
     [toolName |-> "shell.exec", input |-> Nothing]}

ExecuteCalls ==
    {Obj([url |-> {"/api/ai/execute"}, headers |-> {h}, json |-> b]) :
        h \in CallerHeaders, b \in Opt(CallerBodies)}

CallerSearches ==
    {[url |-> "/api/ai/methods/search", headers |-> h, searchParams |-> sp] :
        h \in CallerHeaders, sp \in {Nothing, [q |-> <<"c", "r", "e", "a", "t", "e", " ", "a", " ", "c", "o", "m", "p", "a", "n", "y">>, limit |-> "3"]}}

CallerMethodsCalls == {[url |-> "/api/ai/methods", headers |-> h] : h \in CallerHeaders}

ProxyVerbs == {"GET", "POST", "PUT", "PATCH", "DELETE"}

ProxyCalls ==
    {[url |-> "/api/proxy/ai", method |-> m, path |-> <<"v1", "chat">>, search |-> s,
      headers |-> [k \in DOMAIN h \cup DOMAIN c |-> IF k \in DOMAIN h THEN h[k] ELSE c[k]],
      text |-> t] :
        m \in ProxyVerbs, s \in {"", "?stream=1"}, h \in CallerHeaders, c \in ClientHeaders,
        t \in {"", "{prompt}"}}

OptionsCalls ==
    {[url |-> "/api/proxy/ai", method |-> "OPTIONS", path |-> <<"v1", "chat">>, headers |-> h] :
        h \in CallerHeaders}

\* The answers of the AI module.
AiReplies ==
    {[status |-> 200, text |-> "{json}"],
     [status |-> 500, text |-> "Internal Server Error"],
     [status |-> 302, location |-> "/login", text |-> ""],
     [status |-> 304, text |-> ""]}

CallerEnvs ==
    {[NODE_ENV |-> n, HIT_AI_AUTO_APPROVE_WRITES |-> "0", HIT_AI_AUTO_APPROVE_DELETE |-> "0",
      HIT_AI_URL |-> u, HIT_SERVICE_TOKEN |-> t] :
        n \in {"development", "production"}, u \in {"", "http://ai:8000"}, t \in {"", "svc"}}

InitCallers ==
    /\ env \in CallerEnvs
    /\ pc = "idle"
    /\ request = Nothing
    /\ idx = 0
    /\ results = << >>
    /\ ok = 0
    /\ failed = 0
    /\ inflight = Nothing
    /\ fetchLog = << >>
    /\ response = Nothing
    /\ caps = CrmCaps
    /\ catalog = << >>
    /\ cached = Nothing
    /\ now = 0
    /\ disk = << >>
    /\ scans = 0
    /\ found = << >>

NextCallers ==
    \/ \E req \in ExecuteCalls : POST(req)
    \/ BulkIter
    \/ FetchResolve
    \/ FetchReject
    \/ BulkReturn
    \/ \E req \in CallerSearches : SearchGET(req)
    \/ SearchResolve
    \/ SearchReject
    \/ \E req \in CallerMethodsCalls : MethodsGET(req)
    \/ \E req \in ProxyCalls : ProxyRequest(req)
    \/ \E reply \in AiReplies : ProxyResolve(reply)
    \/ ProxyReject
    \/ \E req \in OptionsCalls : OPTIONS(req)
    \/ Finish

SpecCallers == InitCallers /\ [][NextCallers]_vars

--------------------------------------------------------------------------
\* Discovery of the routes of the application (ai-endpoints).  A directory
\* is a record of its name, whether it can be read and its entries in the
\* order of readdirSync, which are directories and files; a file is a record
\* of its name, whether it can be read and its text.  The text of a file is
\* the sequence of its function declarations and the sequence of its /** */
\* blocks, each block the sequence of its lines without their decoration and
\* without the empty ones.  A line that starts with a verb and a path under
\* /api/ is a record of the two; any other line is its text and its length.

\* The cache is fresh for 30 s.
FreshMs == 30000

RouteVerbs == <<"GET", "POST", "PUT", "PATCH", "DELETE">>

\* walk(dir, acc): the route.ts files below dir, each with the path of its
\* directory relative to the root of the walk; readdirSync throws on a
\* directory that cannot be read, and walk lets it through.
RECURSIVE walk(_, _, _), WalkFrom(_, _, _, _)
walk(dir, rel, acc) ==
    IF ~dir.readable THEN [throws |-> TRUE] ELSE WalkFrom(dir, rel, 1, acc)

WalkFrom(dir, rel, k, acc) ==
    IF k > Len(dir.entries) THEN [files |-> acc]
    ELSE LET entry == dir.entries[k]
         IN  IF entry.kind = "directory"
                 THEN LET sub == walk(entry, Append(rel, entry.name), acc)
                      IN  IF Has(sub, "throws") THEN sub
                          ELSE WalkFrom(dir, rel, k + 1, sub.files)
             ELSE IF entry.kind = "file" /\ entry.name = <<"r", "o", "u", "t", "e", ".", "t", "s">>
                 THEN WalkFrom(dir, rel, k + 1, Append(acc, [rel |-> rel, file |-> entry]))
             ELSE WalkFrom(dir, rel, k + 1, acc)

\* extractMethods: the verbs, in the order of RouteVerbs, that the text
\* declares as an exported async function.
RECURSIVE extractMethods(_, _)
extractMethods(text, i) ==
    IF i > Len(RouteVerbs) THEN << >>
    ELSE LET declared == \E k \in 1..Len(text.functions) :
                             /\ text.functions[k].exported
                             /\ text.functions[k].async
                             /\ text.functions[k].name = RouteVerbs[i]
         IN  (IF declared THEN <<RouteVerbs[i]>> ELSE << >>) \o extractMethods(text, i + 1)

IsRouteLine(line) == Has(line, "verb")

\* The lines of the description of the route line i of a block: of the three
\* lines that follow it and come before the next route line, those longer
\* than 3 characters (join(' ') is kept as the sequence).
RECURSIVE DescLines(_, _, _)
DescLines(lines, i, j) ==
    IF j >= Min(Len(lines) + 1, i + 4) THEN << >>
    ELSE IF IsRouteLine(lines[j]) THEN << >>
    ELSE (IF lines[j].length > 3 THEN <<lines[j].text>> ELSE << >>) \o DescLines(lines, i, j + 1)

\* The methodDocs of one block, on top of those of the blocks before it.
RECURSIVE BlockDocs(_, _, _)
BlockDocs(lines, i, methodDocs) ==
    IF i > Len(lines) THEN methodDocs
    ELSE IF IsRouteLine(lines[i]) /\ DescLines(lines, i, i + 1) # << >>
        THEN BlockDocs(lines, i + 1,
                       [v \in DOMAIN methodDocs \cup {ToUpperCase(lines[i].verb)} |->
                           IF v = ToUpperCase(lines[i].verb) THEN DescLines(lines, i, i + 1)
                           ELSE methodDocs[v]])
    ELSE BlockDocs(lines, i + 1, methodDocs)

RECURSIVE FirstPlainLine(_, _)
FirstPlainLine(lines, i) ==
    IF i > Len(lines) THEN {}
    ELSE IF ~IsRouteLine(lines[i]) THEN {lines[i].text}
    ELSE FirstPlainLine(lines, i + 1)

\* extractDocs: the summary and the methodDocs of the text, over its blocks.
RECURSIVE extractDocs(_, _, _, _)
extractDocs(blocks, b, summary, methodDocs) ==
    IF b > Len(blocks)
        THEN Obj([summary |-> summary,
                  methodDocs |-> IF DOMAIN methodDocs # {} THEN {methodDocs} ELSE {}])
    ELSE IF blocks[b] = << >> THEN extractDocs(blocks, b + 1, summary, methodDocs)
    ELSE extractDocs(blocks, b + 1,
                     IF summary = {} THEN FirstPlainLine(blocks[b], 1) ELSE summary,
                     BlockDocs(blocks[b], 1, methodDocs))

\* '/api/' + rel.split(path.sep).join('/')
RECURSIVE JoinPath(_, _)
JoinPath(rel, i) ==
    IF i > Len(rel) THEN << >>
    ELSE (IF i > 1 THEN <<"/">> ELSE << >>) \o rel[i] \o JoinPath(rel, i + 1)

RoutePathOf(rel) == <<"/", "a", "p", "i", "/">> \o JoinPath(rel, 1)

\* The endpoints of the files of a walk: a file that cannot be read, or
\* that declares no method, gives none.
RECURSIVE EndpointsOfFiles(_, _)
EndpointsOfFiles(files, i) ==
    IF i > Len(files) THEN << >>
    ELSE LET f == files[i].file
             methods == extractMethods(f.text, 1)
             docs == extractDocs(f.text.blocks, 1, {}, << >>)
             endpoint == [k \in {"pathTemplate", "methods"} \cup DOMAIN docs |->
                             IF k = "pathTemplate" THEN RoutePathOf(files[i].rel)
                             ELSE IF k = "methods" THEN methods
                             ELSE docs[k]]
         IN  (IF f.readable /\ methods # << >> THEN <<endpoint>> ELSE << >>)
                 \o EndpointsOfFiles(files, i + 1)

\* a.localeCompare(b) < 0, for paths of lower-case letters and '/', on which
\* the order of the locale is that of the characters.
LocaleLess(a, b) == StrLess(a, b)

\* endpoints.sort((a, b) => a.pathTemplate.localeCompare(b.pathTemplate))
RECURSIVE InsertByPath(_, _)
InsertByPath(sorted, x) ==
    IF sorted = << >> THEN <<x>>
    ELSE IF LocaleLess(x.pathTemplate, Head(sorted).pathTemplate) THEN <<x>> \o sorted
    ELSE <<Head(sorted)>> \o InsertByPath(Tail(sorted), x)

RECURSIVE SortByPath(_, _, _)
SortByPath(xs, i, sorted) ==
    IF i > Len(xs) THEN sorted ELSE SortByPath(xs, i + 1, InsertByPath(sorted, xs[i]))

\* ScanOf without the sort: the endpoints in the order of the walk.
ScanOf_Unsorted(apiRoot) ==
    IF apiRoot = Nothing THEN [endpoints |-> << >>]
    ELSE LET w == walk(apiRoot, << >>, << >>)
         IN  IF Has(w, "throws") THEN w
             ELSE [endpoints |-> EndpointsOfFiles(w.files, 1)]

\* What a scan of the application under apiRoot gives: nothing to walk, the
\* endpoints, or the exception of the walk.
ScanOf(apiRoot) ==
    IF apiRoot = Nothing THEN [endpoints |-> << >>]
    ELSE LET w == walk(apiRoot, << >>, << >>)
         IN  IF Has(w, "throws") THEN w
             ELSE [endpoints |-> SortByPath(EndpointsOfFiles(w.files, 1), 1, << >>)]

\* The calls of a behaviour, and its time, are bounded.
MaxCalls == 4

MaxNow == 40000

ProjectRoots == {"/srv/a", "/srv/b"}

CallsSoFar == IF found = Nothing THEN 0 ELSE found.call

\* The last scan of each root, its time and what it gave: none before the
\* first one.
SeenSoFar == IF found = Nothing THEN [r \in ProjectRoots |-> {}] ELSE found.seen

\* discoverAppApiEndpoints(projectRoot).  scans counts the calls that go to
\* the file system; found is the call: its number, its root, its time,
\* whether it scanned, what it returned, and what the last scan of each
\* root gave.
Discover(projectRoot) ==
    /\ CallsSoFar < MaxCalls
    /\ \E call \in {[call |-> CallsSoFar + 1, projectRoot |-> projectRoot, at |-> now]} :
           IF cached # Nothing /\ now - cached.at < FreshMs
               THEN /\ found' = [k \in DOMAIN call \cup {"scanned", "returns", "seen"} |->
                                    IF k = "scanned" THEN FALSE
                                    ELSE IF k = "returns" THEN cached.endpoints
                                    ELSE IF k = "seen" THEN SeenSoFar
                                    ELSE call[k]]
                    /\ UNCHANGED <<cached, scans>>
           ELSE \E scan \in {ScanOf(disk[projectRoot])} :
                    /\ scans' = scans + 1
                    /\ IF Has(scan, "throws")
                           THEN /\ found' = [k \in DOMAIN call \cup {"scanned", "throws", "seen"} |->
                                                IF k \in {"scanned", "throws"} THEN TRUE
                                                ELSE IF k = "seen" THEN SeenSoFar
                                                ELSE call[k]]
                                /\ UNCHANGED cached
                           ELSE /\ cached' = [at |-> now, endpoints |-> scan.endpoints]
                                /\ found' = [k \in DOMAIN call \cup {"scanned", "returns", "seen"} |->
                                                IF k = "scanned" THEN TRUE
                                                ELSE IF k = "returns" THEN scan.endpoints
                                                ELSE IF k = "seen"
                                                    THEN [SeenSoFar EXCEPT ![projectRoot] =
                                                              {[at |-> now, endpoints |-> scan.endpoints]}]
                                                ELSE call[k]]
    /\ UNCHANGED <<env, pc, request, idx, results, ok, failed, inflight, fetchLog, response,
                   caps, catalog, now, disk>>

\* Time passes.
Tick(ms) ==
    /\ now + ms <= MaxNow
    /\ now' = now + ms
    /\ UNCHANGED <<env, pc, request, idx, results, ok, failed, inflight, fetchLog, response,
                   caps, catalog, cached, disk, scans, found>>

\* The application under projectRoot is built anew.
Rebuild(projectRoot, apiRoot) ==
    /\ disk[projectRoot] # apiRoot
    /\ disk' = [disk EXCEPT ![projectRoot] = apiRoot]
    /\ UNCHANGED <<env, pc, request, idx, results, ok, failed, inflight, fetchLog, response,
                   caps, catalog, cached, now, scans, found>>

TickSteps == {9999, 10000}

RouteFile(functions, blocks) ==
    [kind |-> "file", name |-> <<"r", "o", "u", "t", "e", ".", "t", "s">>, readable |-> TRUE,
     text |-> [functions |-> functions, blocks |-> blocks]]

Exported(name) == [exported |-> TRUE, async |-> TRUE, name |-> name]

Folder(name, entries) ==
    [kind |-> "directory", name |-> name, readable |-> TRUE, entries |-> entries]

CompaniesRoute ==
    RouteFile(<<Exported("GET"), Exported("POST"), [exported |-> FALSE, async |-> TRUE, name |-> "PUT"],
                [exported |-> TRUE, async |-> FALSE, name |-> "DELETE"]>>,
              <<<<[text |-> "Companies", length |-> 9],
                  [verb |-> "get", path |-> <<"/", "a", "p", "i", "/", "c", "r", "m", "/", "c", "o", "m", "p", "a", "n", "i", "e", "s">>],
                  [text |-> "List companies", length |-> 14],
                  [text |-> "ok", length |-> 2],
                  [verb |-> "POST", path |-> <<"/", "a", "p", "i", "/", "c", "r", "m", "/", "c", "o", "m", "p", "a", "n", "i", "e", "s">>]>>>>)

ContactsRoute == RouteFile(<<Exported("GET")>>, << >>)

HelpersFile ==
    [kind |-> "file", name |-> <<"h", "e", "l", "p", "e", "r", "s", ".", "t", "s">>, readable |-> TRUE,
     text |-> [functions |-> <<Exported("GET")>>, blocks |-> << >>]]

\* The applications: one of two routes, listed out of order; one that has
\* more, among which a route file that cannot be read and one that declares
\* nothing; one with a directory that cannot be read.
SmallApp ==
    Folder(<<"a", "p", "i">>, <<Folder(<<"c", "r", "m">>, <<Folder(<<"c", "o", "n", "t", "a", "c", "t", "s">>, <<ContactsRoute>>),
                                    Folder(<<"c", "o", "m", "p", "a", "n", "i", "e", "s">>, <<HelpersFile, CompaniesRoute>>)>>)>>)

LargeApp ==
    Folder(<<"a", "p", "i">>, <<RouteFile(<<Exported("GET")>>, << >>),
                    Folder(<<"t", "a", "s", "k", "s">>, <<[RouteFile(<<Exported("DELETE")>>, << >>) EXCEPT !.readable = FALSE]>>),
                    Folder(<<"c", "r", "m">>, <<Folder(<<"c", "o", "m", "p", "a", "n", "i", "e", "s">>, <<CompaniesRoute>>)>>),
                    Folder(<<"e", "m", "p", "t", "y">>, <<RouteFile(<<[exported |-> TRUE, async |-> FALSE, name |-> "GET"]>>, << >>)>>)>>)

LockedApp ==
    Folder(<<"a", "p", "i">>, <<Folder(<<"c", "r", "m">>, <<Folder(<<"c", "o", "n", "t", "a", "c", "t", "s">>, <<ContactsRoute>>)>>),
                    [Folder(<<"p", "r", "i", "v", "a", "t", "e">>, <<ContactsRoute>>) EXCEPT !.readable = FALSE]>>)

ApiRoots == {Nothing, SmallApp, LargeApp, LockedApp}

InitDiscovery ==
    /\ env = [NODE_ENV |-> "production", HIT_AI_AUTO_APPROVE_WRITES |-> "0",
              HIT_AI_AUTO_APPROVE_DELETE |-> "0"]
    /\ pc = "idle"
    /\ request = Nothing
    /\ idx = 0
    /\ results = << >>
    /\ ok = 0
    /\ failed = 0
    /\ inflight = Nothing
    /\ fetchLog = << >>
    /\ response = Nothing
    /\ caps = Nothing
    /\ catalog = << >>
    /\ cached = Nothing
    /\ now = 0
    /\ disk \in [ProjectRoots -> {SmallApp, Nothing}]
    /\ scans = 0
    /\ found = Nothing

NextDiscovery ==
    \/ \E projectRoot \in ProjectRoots : Discover(projectRoot)
    \/ \E ms \in TickSteps : Tick(ms)
    \/ \E projectRoot \in ProjectRoots : \E apiRoot \in ApiRoots : Rebuild(projectRoot, apiRoot)

SpecDiscovery == InitDiscovery /\ [][NextDiscovery]_vars

--------------------------------------------------------------------------
\* Calls of execute whose paths have dot segments and empty segments, which
\* new URL resolves.

DotPaths ==
    {<<"/", "a", "p", "i", "/", "o", "k">>, <<"/", "a", "p", "i", "/", "x", "/", ".", ".", "/", "a", "i", "/", "m", "e", "t", "h", "o", "d", "s">>, <<"/", "a", "p", "i", "/", ".", "/", "a", "i", "/", "m", "e", "t", "h", "o", "d", "s">>, <<"/", "a", "p", "i", "/", ".", ".", "/", "a", "p", "i", "/", "a", "i", "/", "e", "x", "e", "c", "u", "t", "e">>,
     <<"/", "a", "p", "i", "/", "/", "a", "i", "/", "m", "e", "t", "h", "o", "d", "s">>, <<"/", "a", "p", "i", "/", "a", "i", "/", ".", ".", "/", "o", "k">>, <<"/", "a", "p", "i", "/", "x", "/", ".", ".">>, <<"/", "a", "p", "i", "/", "a", "i", "x", "/", ".", ".">>, <<"/", "a", "p", "i", "/", ".", ".", "/", "o", "k">>}

DotCalls ==
    {[url |-> "/api/ai/execute", headers |-> [authorization |-> BearerAlice],
      json |-> [toolName |-> "http.request", input |-> x]] :
        x \in {Obj([method |-> {m}, path |-> {p}, approved |-> a]) :
                  m \in {"GET", "POST", "DELETE"}, p \in DotPaths, a \in Opt({TRUE})}}
      \cup
    {[url |-> "/api/ai/execute", headers |-> [authorization |-> BearerAlice],
      json |-> [toolName |-> "http.bulk",
                input |-> [requests |-> <<[method |-> "GET", path |-> p],
                                         [method |-> "GET", path |-> <<"/", "a", "p", "i", "/", "o", "k">>]>>]]] :
        p \in DotPaths}

InitPaths ==
    /\ env \in {e \in Envs : e.HIT_AI_AUTO_APPROVE_DELETE = "0"}
    /\ pc = "idle"
    /\ request = Nothing
    /\ idx = 0
    /\ results = << >>
    /\ ok = 0
    /\ failed = 0
    /\ inflight = Nothing
    /\ fetchLog = << >>
    /\ response = Nothing
    /\ LibIdle

NextPaths ==
    \/ \E req \in DotCalls : POST(req)
    \/ BulkIter
    \/ FetchResolve
    \/ FetchReject
    \/ BulkReturn
    \/ Finish

SpecPaths == InitPaths /\ [][NextPaths]_vars

--------------------------------------------------------------------------
\* Vocabulary of the properties.

IsSingleCall(r) == Has(r, "json") /\ r.json.toolName = "http.request" /\ HasUser(r)

IsBatch(r) == Has(r, "json") /\ r.json.toolName = "http.bulk" /\ HasUser(r)

InputOf(r) == IF Has(r.json, "input") THEN r.json.input ELSE Nothing

\* The handler takes up the request r in this step.
Arrives(r) == pc = "idle" /\ pc' # "idle" /\ request' = r

IsDraft(res) ==
    Has(res, "body") /\ Has(res.body, "requiresApproval") /\ res.body.requiresApproval

IsValidationError(res) == Has(res, "status") /\ res.status = 400 /\ Has(res.body, "error")

UnderApi(input) == Has(input, "path") /\ StartsWith(input.path, ApiPrefix)

UnderAi(input) == Has(input, "path") /\ StartsWith(input.path, AiPrefix)

ValidPath(input) == UnderApi(input) /\ ~UnderAi(input)

SpelledGet(o) == Has(o, "method") /\ o.method \in {"GET", "get"}

SpelledDelete(o) == Has(o, "method") /\ o.method \in {"DELETE", "delete"}

SpelledMutating(o) ==
    Has(o, "method") /\ o.method \in {"POST", "PUT", "PATCH", "DELETE", "delete"}

ApprovedTrue(input) == Has(input, "approved") /\ input.approved = TRUE

ApprovedFalse(input) == Has(input, "approved") /\ input.approved = FALSE

--------------------------------------------------------------------------
\* C1: a single call whose method is GET and whose path is valid never gets
\* a draft: whatever approved and the switches are, the request is handed
\* to fetch as soon as the call arrives.
C1_GetNeverRequiresApproval ==
    (pc # "idle" /\ IsSingleCall(request)
        /\ SpelledGet(InputOf(request)) /\ ValidPath(InputOf(request)))
    => /\ ~IsDraft(response)
       /\ Len(fetchLog) = 1
       /\ fetchLog[1].sent.method = "GET"

C1_Witness ==
    /\ pc = "done" /\ IsSingleCall(request)
    /\ SpelledGet(InputOf(request)) /\ ValidPath(InputOf(request))
    /\ ApprovedFalse(InputOf(request))
    /\ ~autoApproveWritesEnabled(env) /\ ~autoApproveDeleteEnabled(env)
    /\ response.body.status = 200

\* C2: a single DELETE with approved false, auto-approve-writes enabled and
\* auto-approve-delete disabled is answered with a draft, and nothing is
\* sent to the host application.
C2_DeleteStillNeedsApproval ==
    [][(/\ Arrives(request') /\ IsSingleCall(request')
        /\ SpelledDelete(InputOf(request')) /\ ValidPath(InputOf(request'))
        /\ ApprovedFalse(InputOf(request'))
        /\ autoApproveWritesEnabled(env) /\ ~autoApproveDeleteEnabled(env))
       => (pc' = "done" /\ IsDraft(response') /\ fetchLog' = << >>)]_vars

C2_Witness ==
    /\ pc = "done" /\ IsSingleCall(request)
    /\ SpelledDelete(InputOf(request)) /\ ValidPath(InputOf(request))
    /\ ApprovedFalse(InputOf(request))
    /\ autoApproveWritesEnabled(env) /\ ~autoApproveDeleteEnabled(env)
    /\ IsDraft(response) /\ fetchLog = << >>

\* The switches let the verb of the input through without approval.
PolicyAllows(input, e) ==
    autoApproveWritesEnabled(e) /\ (~SpelledDelete(input) \/ autoApproveDeleteEnabled(e))

\* C3, as stated: a single call with a mutating verb gets a draft in every
\* case except when approved is true and auto-approve-writes is enabled and
\* (the verb is not DELETE or auto-approve-delete is enabled).
C3_ApprovalUnlessAllThree ==
    [][(/\ Arrives(request') /\ IsSingleCall(request')
        /\ SpelledMutating(InputOf(request')) /\ ValidPath(InputOf(request')))
       => (IsDraft(response')
            <=> ~(ApprovedTrue(InputOf(request')) /\ PolicyAllows(InputOf(request'), env)))]_vars

\* C3, amended: a single call with a mutating verb gets a draft in every
\* case except when approved is true, or auto-approve-writes is enabled and
\* (the verb is not DELETE or auto-approve-delete is enabled).
C3_ApprovalUnlessApprovedOrPolicy ==
    [][(/\ Arrives(request') /\ IsSingleCall(request')
        /\ SpelledMutating(InputOf(request')) /\ ValidPath(InputOf(request')))
       => (IsDraft(response')
            <=> ~(ApprovedTrue(InputOf(request')) \/ PolicyAllows(InputOf(request'), env)))]_vars

\* An approved write that is executed with auto-approve-writes disabled.
C3_Witness ==
    /\ pc = "done" /\ IsSingleCall(request)
    /\ Has(InputOf(request), "method") /\ InputOf(request).method = "POST"
    /\ ValidPath(InputOf(request))
    /\ ApprovedTrue(InputOf(request))
    /\ env.NODE_ENV = "production" /\ env.HIT_AI_AUTO_APPROVE_WRITES = "0"
    /\ Len(fetchLog) = 1
    /\ response.body.status = 201

\* The draft in response is the input of the request with approved false:
\* for a single call the verb in upper case, the path, and the query and
\* body or null; for a batch the requests as they were sent.
DraftCarriesInput ==
    LET d == response.body.draft
        inp == InputOf(request)
    IN  /\ d.toolName = request.json.toolName
        /\ d.input.approved = FALSE
        /\ IF IsSingleCall(request)
               THEN /\ DOMAIN d.input = {"method", "path", "query", "body", "approved"}
                    /\ d.input.method = (IF inp.method = "delete" THEN "DELETE" ELSE inp.method)
                    /\ d.input.method \in {"POST", "PUT", "PATCH", "DELETE"}
                    /\ d.input.path = inp.path
                    /\ d.input.query = (IF Has(inp, "query") THEN inp.query ELSE "null")
                    /\ d.input.body = (IF Has(inp, "body") THEN inp.body ELSE "null")
               ELSE /\ DOMAIN d.input = {"requests", "approved"}
                    /\ d.input.requests = inp.requests

\* C4: when the answer to a single call or a batch is a draft, nothing has
\* been sent to the host application, the draft carries the tool name and
\* the input with approved false, and the handler has returned: no later
\* step of it sends anything or changes the answer.
C4_DraftHasNoSideEffect ==
    [][IsDraft(response)
       => /\ pc = "done"
          /\ fetchLog = << >> /\ inflight = Nothing /\ results = << >>
          /\ DraftCarriesInput
          /\ \/ pc' = "idle"
             \/ pc' = pc /\ response' = response /\ fetchLog' = fetchLog]_vars

\* A batch of a read and a write held as a whole.
C4_Witness ==
    /\ pc = "done" /\ IsBatch(request) /\ IsDraft(response)
    /\ Has(InputOf(request), "requests") /\ Len(InputOf(request).requests) = 2
    /\ SpelledGet(InputOf(request).requests[1])
    /\ SpelledMutating(InputOf(request).requests[2])
    /\ response.body.draft.input.requests = InputOf(request).requests
    /\ fetchLog = << >>

\* C5: a single call whose path does not start with "/api/" is refused with
\* status 400, with no draft and nothing handed to fetch, whatever method
\* and approved are.
C5_PathOutsideApiRefused ==
    (pc # "idle" /\ IsSingleCall(request) /\ ~UnderApi(InputOf(request)))
    => /\ pc = "done"
       /\ IsValidationError(response)
       /\ ~IsDraft(response)
       /\ fetchLog = << >> /\ inflight = Nothing

\* An unapproved DELETE outside "/api/", with both switches off.
C5_Witness ==
    /\ pc = "done" /\ IsSingleCall(request)
    /\ Has(InputOf(request), "path") /\ InputOf(request).path = P_outside
    /\ SpelledDelete(InputOf(request)) /\ ApprovedFalse(InputOf(request))
    /\ ~autoApproveWritesEnabled(env) /\ ~autoApproveDeleteEnabled(env)
    /\ response.status = 400

\* C6: a single call whose path is under "/api/ai/" is refused with status
\* 400, with no draft and nothing handed to fetch, whatever method and
\* approved are.
C6_ControlPlaneRefused ==
    (pc # "idle" /\ IsSingleCall(request) /\ UnderAi(InputOf(request)))
    => /\ pc = "done"
       /\ IsValidationError(response)
       /\ ~IsDraft(response)
       /\ fetchLog = << >> /\ inflight = Nothing

\* An approved POST into the control plane.
C6_Witness ==
    /\ pc = "done" /\ IsSingleCall(request)
    /\ UnderAi(InputOf(request)) /\ InputOf(request).path = P_ai
    /\ SpelledMutating(InputOf(request)) /\ InputOf(request).method = "POST"
    /\ ApprovedTrue(InputOf(request))
    /\ response.status = 400

\* C7: a batch of 0 or of 51 requests is refused with status 400 and nothing
\* is run; a batch of 50 requests is not refused: it is held by the gate or
\* goes into the loop.
C7_BatchSizeLimits ==
    (pc # "idle" /\ IsBatch(request) /\ Has(InputOf(request), "requests"))
    => LET n == Len(InputOf(request).requests)
       IN  /\ n \in {0, 51}
               => /\ pc = "done" /\ IsValidationError(response)
                  /\ fetchLog = << >> /\ results = << >>
           /\ n = 50
               => /\ ~IsValidationError(response)
                  /\ \/ IsDraft(response)
                     \/ pc \in {"loop", "fetching", "thrown"}
                     \/ pc = "done" /\ Has(response.body, "results")

\* A batch of 50 requests run to its end.
C7_Witness ==
    /\ pc = "done" /\ IsBatch(request)
    /\ Has(InputOf(request), "requests") /\ Len(InputOf(request).requests) = 50
    /\ Has(response.body, "results") /\ Len(response.body.results) = 50
    /\ Len(fetchLog) = 50

\* The verb a single call runs the entry r with.
EntryVerb(r) ==
    IF SpelledMutating(r) THEN (IF r.method = "delete" THEN "DELETE" ELSE r.method) ELSE "GET"

\* res is the outcome of the j-th entry r: the refusal of its path, or what
\* the host application answered to the request sent for it.
IsOutcomeOf(res, r, j) ==
    IF ~ValidPath(r)
        THEN Has(res, "error") /\ ~Has(res, "status")
        ELSE /\ DOMAIN res = {"status", "url", "method", "response"}
             /\ res.method = EntryVerb(r)
             /\ res.url.pathname = r.path
             /\ res.status = HostStatus(res.method, r.path)
             /\ \E k \in 1..Len(fetchLog) :
                    /\ fetchLog[k].entry = j
                    /\ fetchLog[k].sent.method = res.method
                    /\ fetchLog[k].sent.url = res.url

Is2xx(res) == Has(res, "status") /\ res.status \in 200..299

\* C8: the aggregate result of a batch of n requests has n results, the
\* i-th being the outcome of the i-th request; ok + failed = n; ok counts
\* the results whose upstream status is 2xx; status is 200 if failed = 0
\* and 207 otherwise.
C8_AggregateCounts ==
    (pc = "done" /\ IsBatch(request) /\ Has(response.body, "results"))
    => LET reqs == InputOf(request).requests
           n == Len(reqs)
           b == response.body
       IN  /\ Len(b.results) = n
           /\ \A j \in 1..n : IsOutcomeOf(b.results[j], reqs[j], j)
           /\ b.ok + b.failed = n
           /\ b.ok = Cardinality({j \in 1..n : Is2xx(b.results[j])})
           /\ b.status = (IF b.failed = 0 THEN 200 ELSE 207)

\* [A succeeds, B fails, C succeeds]: ok = 2, failed = 1, status 207.
C8_Witness ==
    /\ pc = "done" /\ IsBatch(request) /\ Has(response.body, "results")
    /\ Len(InputOf(request).requests) = 3
    /\ Len(response.body.results) = 3
    /\ response.body.results[1].status = 200
    /\ response.body.results[2].status = 500
    /\ response.body.results[3].status = 201
    /\ response.body.ok = 2 /\ response.body.failed = 1
    /\ response.body.status = 207

\* The batch of the request went past the gate into the loop and is over.
BatchRanAndEnded ==
    /\ IsBatch(request)
    /\ \/ pc = "thrown"
       \/ pc = "done" /\ Has(response.body, "results")

\* C9: in a batch that is run, the failure of an entry - a refused path, an
\* upstream error status, or a forwarded request that itself fails because
\* the host application cannot be reached - is captured in its result and
\* counted in failed; nothing is thrown out of the batch and the later
\* entries are run.
C9_EntryFailureDoesNotStopBatch ==
    BatchRanAndEnded
    => /\ pc = "done"
       /\ Len(results) = Len(InputOf(request).requests)
       /\ failed = Cardinality({j \in 1..Len(results) : ~Is2xx(results[j])})
       /\ \A j \in 1..Len(InputOf(request).requests) :
              ValidPath(InputOf(request).requests[j])
                  => \E k \in 1..Len(fetchLog) : fetchLog[k].entry = j

\* The gate's decision for the batch input, computed as for a single call:
\* held unless approved, or the switches allow writes and, when an entry is
\* a DELETE, deletes.
BatchHeld(input, e) ==
    /\ ~ApprovedTrue(input)
    /\ ~(/\ autoApproveWritesEnabled(e)
         /\ \/ ~\E j \in 1..Len(input.requests) : SpelledDelete(input.requests[j])
            \/ autoApproveDeleteEnabled(e))

\* A batch of 1..50 requests, one of them at least with a mutating verb.
IsBatchWithWrite(r) ==
    /\ IsBatch(r) /\ Has(InputOf(r), "requests")
    /\ Len(InputOf(r).requests) \in 1..50
    /\ \E j \in 1..Len(InputOf(r).requests) : SpelledMutating(InputOf(r).requests[j])

\* One decision for the whole batch: a draft with no entry run, or the loop.
C10_OneDecision ==
    (Arrives(request') /\ IsBatchWithWrite(request'))
    => IF BatchHeld(InputOf(request'), env)
           THEN pc' = "done" /\ IsDraft(response') /\ fetchLog' = << >> /\ results' = << >>
           ELSE pc' = "loop" /\ ~IsDraft(response')

\* Once the decision is to proceed, the handler ends with every entry run.
C10_EveryEntryRun ==
    (IsBatchWithWrite(request) /\ pc \in {"done", "thrown"} /\ ~IsDraft(response) /\ pc' = "idle")
    => Len(results) = Len(InputOf(request).requests)

\* C10: if any entry of a batch has a mutating verb, one approval decision,
\* computed as for a single call (with the guard on DELETE when any entry is
\* a DELETE), gates the whole batch: when approval is required no entry is
\* run, the GET entries included, and when it is not every entry is run.
C10_BatchAllOrNothing == [][C10_OneDecision /\ C10_EveryEntryRun]_vars

\* The gate alone: the part of C10 that the loop cannot break.
C10_GateAlone == [][C10_OneDecision]_vars

--------------------------------------------------------------------------
\* The single call of the request was forwarded and its handler is over.
SingleCallForwardedAndEnded ==
    /\ IsSingleCall(request)
    /\ Len(fetchLog) = 1
    /\ pc \in {"done", "thrown"}

\* C11: when a single call is forwarded and the host application fails - it
\* answers with an error status, or it cannot be reached so that the
\* forwarded request itself fails - the handler returns a structured result
\* that carries the failure; it never ends by throwing.
C11_UpstreamFailureIsStructured ==
    SingleCallForwardedAndEnded
    => /\ pc = "done"
       /\ response.status = 200
       /\ response.body.status = HostStatus(fetchLog[1].sent.method, fetchLog[1].sent.url.pathname)
       /\ response.body.url = fetchLog[1].sent.url

\* The part of C11 that holds: an error status of the host application is
\* returned in the body of a structured result.
C11_ErrorStatusIsStructured ==
    (SingleCallForwardedAndEnded /\ pc = "done")
    => /\ response.status = 200
       /\ response.body.status = HostStatus(fetchLog[1].sent.method, fetchLog[1].sent.url.pathname)

--------------------------------------------------------------------------
\* The switches as process.env has them now.
WritesSwitchNow == env.NODE_ENV = "development" \/ env.HIT_AI_AUTO_APPROVE_WRITES = "1"

DeleteSwitchNow == env.HIT_AI_AUTO_APPROVE_DELETE = "1"

\* The input of a call the gate has to decide on: a single call with a
\* mutating verb and a valid path, or a batch of 1..50 with a write.
GateDecides(r) ==
    \/ IsSingleCall(r) /\ SpelledMutating(InputOf(r)) /\ ValidPath(InputOf(r))
    \/ IsBatchWithWrite(r)

\* The call has a DELETE: its verb, or the verb of one of its entries.
HasDelete(r) ==
    IF IsSingleCall(r) THEN SpelledDelete(InputOf(r))
    ELSE \E j \in 1..Len(InputOf(r).requests) : SpelledDelete(InputOf(r).requests[j])

\* C20: the two switches are read from the environment of the process at
\* each call and never kept: in any sequence of calls interleaved with
\* changes of the switches, the decision on a call - draft or not - is the
\* one its input and the values the switches have at the moment of the call
\* give, whatever the values were at earlier calls.
C20_DecisionReadsSwitchesAtCall ==
    [][(Arrives(request') /\ GateDecides(request'))
       => (IsDraft(response')
            <=> /\ ~ApprovedTrue(InputOf(request'))
                /\ \/ ~WritesSwitchNow
                   \/ HasDelete(request') /\ ~DeleteSwitchNow)]_vars

\* A batch with a write, not approved, that went past the gate and is in its
\* loop while the switches no longer allow writes: the switches were changed
\* after its call, and the next call will be decided by the new values.
C20_Witness ==
    /\ pc = "loop" /\ idx = 2
    /\ IsBatchWithWrite(request)
    /\ ~ApprovedTrue(InputOf(request))
    /\ ~WritesSwitchNow

--------------------------------------------------------------------------
\* Two specs of the catalog made from different (pathTemplate, verb) pairs.
DifferentPairs(a, b) == a.pathTemplate # b.pathTemplate \/ a.method # b.method

\* The name of a spec without its verb suffix.
NameStem(a) == SubSeq(a.name, 1, Len(a.name) - Len(a.method))

\* C14: methodNameFor is free of collisions: any two (pathTemplate, verb)
\* pairs that differ get different names, and the names of one path with
\* two verbs differ only in the verb suffix.
C14_NamesAreCollisionFree ==
    \A i, j \in 1..Len(catalog) :
        /\ DifferentPairs(catalog[i], catalog[j]) => catalog[i].name # catalog[j].name
        /\ (catalog[i].pathTemplate = catalog[j].pathTemplate /\ catalog[i].method # catalog[j].method)
               => NameStem(catalog[i]) = NameStem(catalog[j])

\* The part of C14 that holds: the names of one path with two verbs differ,
\* and only in the verb suffix.
C14_OnePathTwoVerbs ==
    \A i, j \in 1..Len(catalog) :
        (catalog[i].pathTemplate = catalog[j].pathTemplate /\ catalog[i].method # catalog[j].method)
            => /\ catalog[i].name # catalog[j].name
               /\ NameStem(catalog[i]) = NameStem(catalog[j])
               /\ catalog[i].name = NameStem(catalog[i]) \o catalog[i].method

--------------------------------------------------------------------------
\* The verb s, in whatever case, is GET.
IsGetVerb(s) == StrLower(s) = <<"g", "e", "t">>

\* C15: every MethodSpec buildMethodCatalog makes has readOnly true exactly
\* when its verb is GET; that includes the verbs the endpoint spells in
\* lower or mixed case and the verbs outside the five standard ones.
C15_ReadOnlyIffGet ==
    catalog # << >>
    => /\ \A i \in 1..Len(catalog) : catalog[i].readOnly <=> catalog[i].method = <<"G", "E", "T">>
       /\ \A k \in 1..Len(caps.endpoints) : \A j \in 1..Len(caps.endpoints[k].methods) :
              caps.endpoints[k].methods[j] # << >>
                  => \E i \in 1..Len(catalog) :
                         /\ catalog[i].pathTemplate = caps.endpoints[k].pathTemplate
                         /\ StrLower(catalog[i].method) = StrLower(caps.endpoints[k].methods[j])
                         /\ catalog[i].readOnly <=> IsGetVerb(caps.endpoints[k].methods[j])

\* A catalog with a read-only spec made from the verb get in lower case and
\* a spec that is not read-only made from a verb outside the five.
C15_Witness ==
    \E i, j \in 1..Len(catalog) :
        /\ catalog[i].pathTemplate = <<"/", "a", "p", "i", "/", "a", "-", "b">> /\ catalog[i].method = <<"G", "E", "T">> /\ catalog[i].readOnly
        /\ caps.endpoints[1].methods = <<<<"g", "e", "t">>>>
        /\ catalog[j].method = <<"P", "U", "R", "G", "E">> /\ ~catalog[j].readOnly

--------------------------------------------------------------------------
\* A search has returned its result.
SearchDone ==
    /\ pc = "done"
    /\ Has(request, "searchParams")
    /\ response.status = 200

\* The catalog the search got from the methods route.
GotMethods == MethodsOfReply(MethodsHandler([headers |-> fetchLog[1].sent.headers], caps))

\* The query of the search, normalized.
QueryOf(r) == normalize(QRawOf(r.searchParams))

\* The scores of the methods under the query q.
ScoresOf(q, methods) == [i \in 1..Len(methods) |-> score(q, methods[i])] \o << >>

\* The search asks for the methods of one feature pack.
PackAsked(params) == PackRawOf(params) # << >> /\ StrLower(PackRawOf(params)) # <<"a", "l", "l">>

\* The limit of the search as the caller gave it: 12 when it is absent or
\* not a finite number, and otherwise its integer part brought into 1..50.
LimitGiven(params) ==
    LET given == Has(params, "limit") /\ params.limit # ""
        n == NumberOf(params.limit)
    IN  IF ~given \/ ~n.finite THEN 12
        ELSE IF n.tenths < 10 THEN 1
        ELSE IF n.tenths > 500 THEN 50
        ELSE n.tenths \div 10

\* The result of a search over methods whose scores are sc: the methods
\* that are eligible and score above 0, each at the place that the number of
\* those ahead of it gives - a higher score, or the same score and an
\* earlier place in the catalog - up to the limit.
IsRankedResult(cands, methods, sc, eligible, limit) ==
    LET positive == {i \in eligible : sc[i] > 0}
        ahead(i) == {j \in positive : sc[j] > sc[i] \/ (sc[j] = sc[i] /\ j < i)}
    IN  /\ Len(cands) = Min(limit, Cardinality(positive))
        /\ \A k \in 1..Len(cands) :
               \E i \in positive : methods[i] = cands[k] /\ Cardinality(ahead(i)) = k - 1

\* C16: the result of a method search has only methods whose score is above
\* 0, in the order of their scores from the highest down, methods of equal
\* score in the order of the catalog, which is that of their names; it is
\* cut to the limit of the caller brought into 1..50, and to 12 when the
\* limit is absent or not a finite number.
C16_SearchResultIsRankedAndCapped ==
    SearchDone
    => \E methods \in {GotMethods} : \E sc \in {ScoresOf(QueryOf(request), methods)} :
           /\ \A i \in 1..(Len(methods) - 1) : ~StrLess(methods[i + 1].name, methods[i].name)
           /\ IsRankedResult(response.body.candidates, methods, sc,
                             {i \in 1..Len(methods) :
                                 PackAsked(request.searchParams)
                                     => /\ Has(methods[i], "featurePack")
                                        /\ StrLower(methods[i].featurePack)
                                               = StrLower(PackRawOf(request.searchParams))},
                             LimitGiven(request.searchParams))

\* A search for "create task" in the large project with a limit of 51: 50
\* candidates, the POST methods first and then GET methods, each group in
\* the order of the names.
C16_Witness ==
    /\ SearchDone
    /\ caps = BigCaps
    /\ Has(request.searchParams, "limit") /\ request.searchParams.limit = "51"
    /\ Has(request.searchParams, "q") /\ request.searchParams.q = <<"c", "r", "e", "a", "t", "e", " ", "t", "a", "s", "k">>
    /\ Len(response.body.candidates) = 50
    /\ response.body.candidates[1].method = <<"P", "O", "S", "T">>
    /\ response.body.candidates[2].method = <<"P", "O", "S", "T">>
    /\ StrLess(response.body.candidates[1].name, response.body.candidates[2].name)
    /\ response.body.candidates[50].method = <<"G", "E", "T">>

\* C17: the score of a method whose text has the normalized query as a
\* substring, the bonus of 30, is higher than any score the scorer gives
\* from terms, boosts and bonuses of intent when there is no such match.
C17_ExactMatchDominates ==
    SearchDone
    => \E methods \in {GotMethods} : \E q \in {QueryOf(request)} :
           \A i \in 1..Len(methods) : \E hay \in {HayOf(methods[i])} :
               ~(q # << >> /\ StrIncludes(hay, q))
                   => ScoreOnHay(q, methods[i], hay) < ExactBonus

\* The catalog is made of exactly the three methods of the two entities.
IsCrmCatalog(methods) ==
    /\ Len(methods) = 3
    /\ {<<methods[i].method, methods[i].pathTemplate>> : i \in 1..Len(methods)}
           = {<<<<"P", "O", "S", "T">>, <<"/", "a", "p", "i", "/", "c", "r", "m", "/", "c", "o", "m", "p", "a", "n", "i", "e", "s">>>>, <<<<"G", "E", "T">>, <<"/", "a", "p", "i", "/", "c", "r", "m", "/", "c", "o", "m", "p", "a", "n", "i", "e", "s">>>>,
              <<<<"G", "E", "T">>, <<"/", "a", "p", "i", "/", "c", "r", "m", "/", "c", "o", "n", "t", "a", "c", "t", "s">>>>}

\* C18: for the query "create a company" and a catalog of exactly POST
\* /api/crm/companies, GET /api/crm/companies and GET /api/crm/contacts, the
\* first candidate of the search is POST /api/crm/companies.
C18_CreateCompanyRanksPostFirst ==
    (/\ SearchDone
     /\ QueryOf(request) = <<"c", "r", "e", "a", "t", "e", " ", "a", " ", "c", "o", "m", "p", "a", "n", "y">>
     /\ ~PackAsked(request.searchParams)
     /\ IsCrmCatalog(GotMethods))
    => /\ Len(response.body.candidates) >= 1
       /\ response.body.candidates[1].method = <<"P", "O", "S", "T">>
       /\ response.body.candidates[1].pathTemplate = <<"/", "a", "p", "i", "/", "c", "r", "m", "/", "c", "o", "m", "p", "a", "n", "i", "e", "s">>

\* The search of "  Create a Company! " in that catalog: POST
\* /api/crm/companies, then GET /api/crm/companies, and no contacts.
C18_Witness ==
    /\ SearchDone
    /\ caps = CrmCaps
    /\ Has(request.searchParams, "q") /\ request.searchParams.q = <<" ", " ", "C", "r", "e", "a", "t", "e", " ", "a", " ", "C", "o", "m", "p", "a", "n", "y", "!", " ">>
    /\ ~Has(request.searchParams, "limit")
    /\ Len(response.body.candidates) = 2
    /\ response.body.candidates[1].method = <<"P", "O", "S", "T">>
    /\ response.body.candidates[1].pathTemplate = <<"/", "a", "p", "i", "/", "c", "r", "m", "/", "c", "o", "m", "p", "a", "n", "i", "e", "s">>
    /\ response.body.candidates[2].method = <<"G", "E", "T">>
    /\ response.body.candidates[2].pathTemplate = <<"/", "a", "p", "i", "/", "c", "r", "m", "/", "c", "o", "m", "p", "a", "n", "i", "e", "s">>

--------------------------------------------------------------------------
\* The request carries a token of a caller: a bearer token, or else the
\* hit_token cookie, of three parts, whose payload reads, has not expired
\* and names the caller.
HasValidIdentity(r) ==
    \E token \in {getTokenFromRequest(r)} :
        /\ token # ""
        /\ Len(JwtParts(token)) = 3
        /\ \E payload \in {JwtPayload(JwtParts(token)[2])} :
               /\ ~Has(payload, "throws")
               /\ Has(payload, "exp") => payload.exp >= NowSeconds
               /\ Has(payload, "sub") \/ Has(payload, "email")

\* A handler has the request of a caller without valid identity in hand.
HandlesStranger == pc # "idle" /\ ~HasValidIdentity(request)

\* The handler has ended with 401 and an error, and has done nothing else:
\* no call was forwarded, no entry was run.
RejectedUnauthenticated ==
    /\ pc = "done"
    /\ response.status = 401
    /\ DOMAIN response.body = {"error"}
    /\ ~IsDraft(response) /\ ~IsValidationError(response)
    /\ fetchLog = << >> /\ inflight = Nothing
    /\ results = << >> /\ idx = 0

IsPreflight(r) == Has(r, "method") /\ r.method = "OPTIONS"

\* C12 as stated: on every route (execute, method search, method catalog, AI
\* proxy) a request without valid identity is rejected with 401 before
\* anything else is done: no body is read, no validation error or draft is
\* made, nothing is forwarded.
C12_StrangerAlwaysRejected == HandlesStranger => RejectedUnauthenticated

\* C12 amended: the same for the execute POST, the method search GET, the
\* method catalog GET and the GET, POST, PUT, PATCH and DELETE of the AI
\* proxy; the OPTIONS of the AI proxy answers 200 to every caller, and
\* forwards nothing.
C12_StrangerRejectedButPreflight ==
    /\ (HandlesStranger /\ ~IsPreflight(request)) => RejectedUnauthenticated
    /\ (pc # "idle" /\ IsPreflight(request))
           => /\ pc = "done" /\ response.status = 200
              /\ ~Has(response, "body")
              /\ fetchLog = << >> /\ inflight = Nothing

\* A call of execute with an expired bearer token and a path that execute
\* would refuse is rejected with 401, not with the validation error.
C12_Witness ==
    /\ pc = "done"
    /\ request.url = "/api/ai/execute"
    /\ Has(request.headers, "authorization")
    /\ request.headers.authorization.credentials = "h.old.s"
    /\ ~Has(request.headers, "cookie")
    /\ Has(request, "json") /\ request.json.toolName = "http.request"
    /\ request.json.input.path = P_outside
    /\ RejectedUnauthenticated

\* The request is a call of execute.
IsExecuteCall(r) == Has(r, "url") /\ r.url = "/api/ai/execute"

\* The header k of the request r as the caller sent it: none when the
\* request has no such header or the header is empty.
Inbound(r, k) ==
    IF ~Has(r.headers, k) THEN {}
    ELSE IF k = "authorization" /\ r.headers[k] = EmptyAuthorization THEN {}
    ELSE IF k = "cookie" /\ r.headers[k] = << >> THEN {}
    ELSE {r.headers[k]}

\* The header k of what was handed to fetch.
Outbound(sent, k) == IF Has(sent.headers, k) THEN {sent.headers[k]} ELSE {}

\* C19: the authorization header and the cookie header of every call that
\* execute forwards are those of the request of the caller, and are absent
\* when the request has none: no credential is replaced or made up.
C19_CredentialsForwardedUnchanged ==
    IsExecuteCall(request)
    => \A k \in 1..Len(fetchLog) :
           /\ Outbound(fetchLog[k].sent, "authorization") = Inbound(request, "authorization")
           /\ Outbound(fetchLog[k].sent, "cookie") = Inbound(request, "cookie")

\* A caller known by the cookie alone, whose batch of two was run: both
\* calls went out with the cookie and without an authorization header.
C19_Witness ==
    /\ pc = "done"
    /\ IsExecuteCall(request)
    /\ ~Has(request.headers, "authorization")
    /\ Has(request.headers, "cookie") /\ CookieToken(request.headers.cookie, 1) = "h.alice.s"
    /\ Len(fetchLog) = 2
    /\ \A k \in 1..2 :
           /\ ~Has(fetchLog[k].sent.headers, "authorization")
           /\ fetchLog[k].sent.headers.cookie = request.headers.cookie

--------------------------------------------------------------------------
\* A call of discoverAppApiEndpoints is made in this step.
DiscoverStep == found' # found

\* The time of the last scan, when there was one: that of the last call if
\* it scanned, and otherwise that of the scan the cache is from.
LastScanAt ==
    IF found # Nothing /\ found.scanned THEN {found.at}
    ELSE IF cached # Nothing THEN {cached.at}
    ELSE {}

\* The call of this step comes less than 30 s after the last scan.
InsideWindow == \E at \in LastScanAt : now - at < FreshMs

\* The call returns what the cache holds and leaves the file system alone.
ServedFromCache ==
    /\ scans' = scans
    /\ cached' = cached
    /\ Has(found', "returns") /\ found'.returns = cached.endpoints

\* The call scans, returns what the scan gives and puts it in the cache with
\* the time of the call.
Rescanned ==
    /\ scans' = scans + 1
    /\ Has(found', "returns")
    /\ found'.returns = ScanOf(disk[found'.projectRoot]).endpoints
    /\ cached' = [at |-> now, endpoints |-> found'.returns]

\* C13: a call of discoverAppApiEndpoints less than 30 s after the last scan
\* returns the cached endpoints without a scan (the count of scans stays);
\* a call after the 30 s scans anew and replaces the cache by the new
\* result and the new time.
C13_CacheServesWindowThenRescans ==
    [][DiscoverStep => IF InsideWindow THEN ServedFromCache
                       ELSE (LastScanAt # {} => Rescanned)]_vars

\* What holds of C13: a call less than 30 s after the scan the cache is from
\* is served from the cache; a later call, and a first call, scans, and when
\* its walk ends without an exception the cache is replaced by the new
\* result and the new time.
C13_CacheServesWindowThenRescansUnlessWalkThrows ==
    [][DiscoverStep =>
           IF cached # Nothing /\ now - cached.at < FreshMs THEN ServedFromCache
           ELSE /\ scans' = scans + 1
                /\ Has(found', "returns") => Rescanned
                /\ Has(found', "throws") => cached' = cached]_vars

--------------------------------------------------------------------------
\* C21: no call is forwarded into the namespace of the broker: for every
\* path the validation of the single call accepts, paths with '..' segments
\* and other forms that new URL resolves included, the path of the URL that
\* is requested of the host application is not under '/api/ai/'.
C21_NeverForwardsIntoControlPlane ==
    \A k \in 1..Len(fetchLog) :
        IsExecuteCall(request) => ~StartsWith(fetchLog[k].sent.url.pathname, AiPrefix)

\* What holds of C21: the path as the caller wrote it is never under
\* '/api/ai/' when a call is forwarded.
C21_WrittenPathOutsideControlPlane ==
    (pc = "fetching" /\ IsSingleCall(request))
        => /\ StartsWith(PathRawOf(InputOf(request)), ApiPrefix)
           /\ ~StartsWith(PathRawOf(InputOf(request)), AiPrefix)

--------------------------------------------------------------------------
\* What shows at the root of the call of this step: what the last scan of
\* that root gave, this call's scan included, and, when the root was never
\* scanned, what a scan of it gives now.
VisibleAtRootOfCall ==
    LET root == found'.projectRoot
    IN  IF found'.seen[root] # {} THEN {snapshot.endpoints : snapshot \in found'.seen[root]}
        ELSE IF Has(ScanOf(disk[root]), "endpoints") THEN {ScanOf(disk[root]).endpoints}
        ELSE {}

\* C22: in every sequence of calls of discovery, whatever their roots, a
\* call with root R returns the endpoints that show at R as of the last scan
\* of R; a call with root R2 inside the window of an earlier call with
\* another root R1 does not return the endpoints of R1.
C22_ReturnsEndpointsOfItsRoot ==
    [][(DiscoverStep /\ Has(found', "returns")) => found'.returns \in VisibleAtRootOfCall]_vars

\* What holds of C22: a call that scans returns what shows at its root.
C22_ScanReturnsEndpointsOfItsRoot ==
    [][(DiscoverStep /\ Has(found', "returns") /\ found'.scanned)
           => found'.returns = ScanOf(disk[found'.projectRoot]).endpoints]_vars

--------------------------------------------------------------------------
\* The endpoints are in the order of their paths.
SortedByPath(endpoints) ==
    \A i \in 1..(Len(endpoints) - 1) :
        ~LocaleLess(endpoints[i + 1].pathTemplate, endpoints[i].pathTemplate)

\* The scans that ended, each the last one of its root: their times and
\* what they gave.
Snapshots == UNION {SeenSoFar[r] : r \in ProjectRoots}

\* C23: the cache is replaced by one assignment of a snapshot that is fully
\* built: in every state the cache is empty (never built) or holds the whole
\* list of a scan, sorted by pathTemplate, with the time of that scan; and
\* what a call returns is the whole list of the cache, not a part of it nor
\* a mix with an older scan.
C23_CacheIsWholeSnapshot ==
    /\ cached # Nothing
           => /\ cached \in Snapshots
              /\ SortedByPath(cached.endpoints)
              /\ cached.at <= now
              /\ \A snapshot \in Snapshots : snapshot.at <= cached.at
    /\ (found # Nothing /\ Has(found, "returns"))
           => cached # Nothing /\ found.returns = cached.endpoints
    /\ (found = Nothing) => cached = Nothing

\* A cache of two endpoints built at 30000 in the place of an older one, and
\* served to the last call.
C23_Witness ==
    /\ cached # Nothing
    /\ cached.at = 30000
    /\ Len(cached.endpoints) = 2
    /\ cached.endpoints[1].pathTemplate = <<"/", "a", "p", "i", "/", "c", "r", "m", "/", "c", "o", "m", "p", "a", "n", "i", "e", "s">>
    /\ cached.endpoints[2].pathTemplate = <<"/", "a", "p", "i", "/", "c", "r", "m", "/", "c", "o", "n", "t", "a", "c", "t", "s">>
    /\ scans = 2
    /\ Has(found, "returns") /\ ~found.scanned /\ found.returns = cached.endpoints
    /\ \E r \in ProjectRoots : \E snapshot \in found.seen[r] : snapshot.at = 0

--------------------------------------------------------------------------
\* The route.ts files below dir that can be reached through directories that
\* can be read.
RECURSIVE ReachableRoutes(_, _, _)
ReachableRoutes(dir, rel, k) ==
    IF ~dir.readable \/ k > Len(dir.entries) THEN << >>
    ELSE LET entry == dir.entries[k]
         IN  (IF entry.kind = "directory"
                  THEN ReachableRoutes(entry, Append(rel, entry.name), 1)
              ELSE IF entry.name = <<"r", "o", "u", "t", "e", ".", "t", "s">> THEN <<[rel |-> rel, file |-> entry]>>
              ELSE << >>)
                 \o ReachableRoutes(dir, rel, k + 1)

\* The endpoints of the routes of the application that can be read.
ReadableEndpoints(apiRoot) ==
    IF apiRoot = Nothing THEN << >>
    ELSE SortByPath(EndpointsOfFiles(ReachableRoutes(apiRoot, << >>, 1), 1), 1, << >>)

RECURSIVE EveryDirectoryReadable(_)
EveryDirectoryReadable(dir) ==
    /\ dir.readable
    /\ \A k \in 1..Len(dir.entries) :
           dir.entries[k].kind = "directory" => EveryDirectoryReadable(dir.entries[k])

\* The call of this step goes to the file system.
ScanStep == DiscoverStep /\ found'.scanned

\* C24: a failure on one route never fails the pass of discovery: when a
\* route file, or the directory that holds it, cannot be read, the route is
\* skipped, every other route is found and returned, and
\* discoverAppApiEndpoints returns normally.
C24_UnreadableRouteIsSkipped ==
    [][ScanStep => /\ Has(found', "returns")
                   /\ found'.returns = ReadableEndpoints(disk[found'.projectRoot])]_vars

\* What holds of C24: when every directory can be read, a route file that
\* cannot be read is skipped and the others are returned.
C24_UnreadableFileIsSkipped ==
    [][(ScanStep /\ disk[found'.projectRoot] # Nothing
                 /\ EveryDirectoryReadable(disk[found'.projectRoot]))
           => /\ Has(found', "returns")
              /\ found'.returns = ReadableEndpoints(disk[found'.projectRoot])]_vars

--------------------------------------------------------------------------
\* buildMethodCatalog has run on the capabilities file.
CatalogBuilt == catalog # << >> /\ catalog = buildMethodCatalog(caps)

\* C25: buildMethodCatalog gives exactly one MethodSpec for each
\* (pathTemplate, verb) pair of its input: no pair is in the catalog twice
\* and no two entries have the same name, also when the input lists a path
\* twice or repeats a verb in another letter case.
C25_OneSpecPerPair ==
    CatalogBuilt =>
        \A i, j \in 1..Len(catalog) :
            i # j => /\ <<catalog[i].pathTemplate, catalog[i].method>>
                            # <<catalog[j].pathTemplate, catalog[j].method>>
                     /\ catalog[i].name # catalog[j].name

\* What holds of C25: every pair of the input, the verb in upper case, is in
\* the catalog, and the catalog has no other pair.
C25_EveryPairHasASpec ==
    CatalogBuilt =>
        {<<catalog[i].pathTemplate, catalog[i].method>> : i \in 1..Len(catalog)}
            = {<<caps.endpoints[i].pathTemplate, StrUpper(caps.endpoints[i].methods[j])>> :
                   <<i, j>> \in {<<a, b>> \in (1..Len(caps.endpoints)) \X (1..3) :
                                    /\ b <= Len(caps.endpoints[a].methods)
                                    /\ caps.endpoints[a].methods[b] # << >>}}

\* The orderings of a list.
Orderings(s) ==
    {[i \in 1..Len(s) |-> s[p[i]]] :
        p \in {q \in [1..Len(s) -> 1..Len(s)] :
                  \A i, j \in 1..Len(s) : i # j => q[i] # q[j]}}

\* The capabilities files with the endpoints of c, and the verbs of each
\* endpoint, in another order.
Reordered(c) ==
    {[c EXCEPT !.endpoints = eps] :
        eps \in UNION {{f \in [1..Len(p) -> UNION {{[p[i] EXCEPT !.methods = m] :
                                                       m \in Orderings(p[i].methods)} :
                                                   i \in 1..Len(p)}] :
                           \A i \in 1..Len(p) :
                               /\ f[i].pathTemplate = p[i].pathTemplate
                               /\ f[i].methods \in Orderings(p[i].methods)
                               /\ f[i] = [p[i] EXCEPT !.methods = f[i].methods]} :
                       p \in Orderings(c.endpoints)}}

SortedByName(specs) ==
    \A i \in 1..(Len(specs) - 1) : ~StrLess(specs[i + 1].name, specs[i].name)

\* C26: the catalog does not depend on the order of the input: it is sorted
\* by name ascending, and any two orderings of the same endpoints, and of the
\* verbs of each endpoint, give the same catalog element by element.
C26_CatalogIndependentOfOrder ==
    CatalogBuilt =>
        /\ SortedByName(catalog)
        /\ \A c \in Reordered(caps) : buildMethodCatalog(c) = catalog

\* What holds of C26: the catalog is sorted by name, and every ordering of
\* the input gives the same specs, the order among specs of one name apart.
C26_SortedAndSameSpecs ==
    CatalogBuilt =>
        /\ SortedByName(catalog)
        /\ \A c \in Reordered(caps) :
               LET other == buildMethodCatalog(c)
               IN  /\ Len(other) = Len(catalog)
                   /\ {other[i] : i \in 1..Len(other)} = {catalog[i] : i \in 1..Len(catalog)}

--------------------------------------------------------------------------
\* The requests of the batch being handled.
BatchRequests == InputOf(request).requests

\* C27: within a batch that is run the forwarded requests are strictly
\* sequential and in the order of the entries: each request sent is the one
\* of its entry, an entry is sent at most once, at most one request is in
\* flight, and the request of an entry is sent only when every entry before
\* it has its result.
C27_BatchStrictlySequential ==
    (pc # "idle" /\ IsBatch(request))
    => /\ \A k, l \in 1..Len(fetchLog) : k < l => fetchLog[k].entry < fetchLog[l].entry
       /\ \A k \in 1..Len(fetchLog) :
              /\ fetchLog[k].entry \in 1..Len(BatchRequests)
              /\ fetchLog[k].sent = FetchOf(request, EntryInput(BatchRequests[fetchLog[k].entry]))
              /\ IF fetchLog[k].entry < idx
                     THEN /\ Len(results) >= fetchLog[k].entry
                          /\ Has(results[fetchLog[k].entry], "url")
                          /\ results[fetchLog[k].entry].url = fetchLog[k].sent.url
                          /\ results[fetchLog[k].entry].method = fetchLog[k].sent.method
                     ELSE /\ k = Len(fetchLog)
                          /\ fetchLog[k].entry = idx
                          /\ pc \in {"fetching", "thrown"}
       /\ inflight # Nothing <=> pc = "fetching"
       /\ pc = "fetching"
              => /\ fetchLog # << >>
                 /\ fetchLog[Len(fetchLog)] = [entry |-> idx, sent |-> inflight]
                 /\ Len(results) = idx - 1

\* The third request of a batch of three is in flight; the first two have
\* been answered, one of them with an error status.
C27_Witness ==
    /\ pc = "fetching" /\ IsBatch(request)
    /\ Len(BatchRequests) = 3 /\ idx = 3
    /\ Len(fetchLog) = 3 /\ Len(results) = 2
    /\ results[1].status = 200 /\ results[2].status = 500
    /\ inflight.method = "POST"

--------------------------------------------------------------------------
\* What the broker answers at once to the call r under the switches e, if it
\* answers at once.
AnswerAtOnce(r, e) ==
    LET b == IF r.json.toolName = "http.request"
                 THEN HttpRequestBegin(r, InputOf(r), e)
                 ELSE HttpBulkBegin(InputOf(r), e)
    IN  IF Has(b, "ret") THEN b.ret ELSE Nothing

\* The drafts the broker gives: to any call, under any value of the switches.
Drafts ==
    {AnswerAtOnce(c[1], c[2]).body.draft :
        c \in {d \in Requests \X Envs :
                  /\ IsSingleCall(d[1]) \/ IsBatch(d[1])
                  /\ IsDraft(AnswerAtOnce(d[1], d[2]))}}

\* The requests the overlay sends when the user approves a draft.
ApprovalRequests == {runApproval(d, BearerAlice.credentials) : d \in Drafts}

\* The method, path, query and body of sent are those recorded in o, a
\* single input or an entry of a batch, in the form the single call runs them:
\* the verb in upper case, GET for none, no query for none, and for a write
\* the empty object for no body.
SentAsRecorded(sent, o) ==
    /\ sent.method = EntryVerb(o)
    /\ sent.url.pathname = o.path
    /\ sent.url.search = (IF Has(o, "query") THEN o.query ELSE "null")
    /\ IF EntryVerb(o) = "GET" THEN ~Has(sent, "body")
       ELSE sent.body = (IF Has(o, "body") /\ o.body # "null" THEN o.body ELSE "{}")

\* The handler is at work on the resubmission of a draft.
HandlesApproval ==
    /\ pc # "idle"
    /\ IsSingleCall(request) \/ IsBatch(request)
    /\ request \in ApprovalRequests

C28_SingleApprovalExecuted ==
    /\ HandlesApproval /\ pc = "done" /\ IsSingleCall(request)
    /\ ~WritesSwitchNow
    /\ InputOf(request).method = "POST" /\ InputOf(request).body = "{name:Acme}"
    /\ response.body.status = 201

--------------------------------------------------------------------------
\* The step hands a request with a mutating verb to fetch.
SendsWrite == fetchLog' # fetchLog /\ fetchLog' # << >> /\ inflight'.method # "GET"

\* The switches as they are allow the call r: writes are enabled and, when
\* the call has a DELETE, deletes are.
SwitchesAllow(r) == WritesSwitchNow /\ (HasDelete(r) => DeleteSwitchNow)

\* The handler is past the gate of a single call or a batch.
PastGate == pc \in {"loop", "fetching"}

\* C29: every mutating request that is forwarded belongs to a call that
\* carried approved true or was allowed by the switches as its gate read
\* them: a call goes past its gate with a write only if it is approved or
\* the switches allow it at that step, the handler stays with that call
\* until it is over, and a change of the switches in the middle of a batch
\* neither turns a later entry into a draft nor lets a write of another
\* call through.
C29_WritesAreGatedOnce ==
    [][/\ (PastGate' /\ ~PastGate) => Arrives(request')
       /\ (Arrives(request') /\ PastGate' /\ GateDecides(request'))
              => (ApprovedTrue(InputOf(request')) \/ SwitchesAllow(request'))
       /\ PastGate => (request' = request \/ pc' = "idle")
       /\ SendsWrite => /\ PastGate'
                        /\ GateDecides(request')
                        /\ Arrives(request') \/ (pc = "loop" /\ request' = request)
       /\ \A j \in 1..Len(results') : ~Has(results'[j], "requiresApproval")
       /\ (PastGate /\ pc' = "done") => ~IsDraft(response')]_vars

\* A batch that was not approved went past its gate when the switches
\* allowed it; the switches were turned off while its first request was in
\* flight, and its second entry, a write, is now in flight.
C29_Witness ==
    /\ pc = "fetching" /\ idx = 2
    /\ IsBatchWithWrite(request)
    /\ ~ApprovedTrue(InputOf(request))
    /\ ~WritesSwitchNow /\ ~DeleteSwitchNow
    /\ Len(fetchLog) = 2 /\ Len(results) = 1
    /\ inflight.method = "DELETE"

--------------------------------------------------------------------------
\* A batch of 1..50 requests, every one of which the single call runs with
\* GET: the verb is GET in any letter case, is missing, or is none of the
\* five verbs.
IsBatchRunAsReads(r) ==
    /\ IsBatch(r) /\ Has(InputOf(r), "requests")
    /\ Len(InputOf(r).requests) \in 1..50
    /\ \A j \in 1..Len(InputOf(r).requests) :
           MethodOf(EntryInput(InputOf(r).requests[j])) = "GET"

\* C30: the gate of a batch and the executor agree on the verb of each
\* entry: a batch whose entries are all executed with GET - the entries with
\* no method or with a method outside the five verbs included - is never
\* answered with a draft, whatever approved and the switches are.
C30_BatchOfReadsNeverHeld ==
    (pc # "idle" /\ IsBatchRunAsReads(request)) => ~IsDraft(response)

\* What holds of C30: a batch whose entries all spell GET, in any letter
\* case, is never answered with a draft.
C30_BatchOfSpelledGetsNeverHeld ==
    (pc # "idle" /\ IsBatchRunAsReads(request)
        /\ \A j \in 1..Len(BatchRequests) : SpelledGet(BatchRequests[j]))
    => ~IsDraft(response)

====
